---- MODULE Spec2Model ----
(***************************************************************************)
(* A model of couchdb-utils' CouchDbUtils.mutateAllDocs: the read stream   *)
(* CouchDbReadStream, the through-transform built in mutateAllDocs, the    *)
(* write stream CouchDbWriteStream and the mississippi.pipe (pump) that    *)
(* wires them to one promise.                                              *)
(*                                                                         *)
(* The program runs on Node's event loop, so the model has the loop's two  *)
(* queues (process.nextTick callbacks and promise microtasks) and the I/O  *)
(* answers of the database, which arrive only when both queues are empty.  *)
(* One action is one callback run to completion.  The stream classes the   *)
(* program extends and calls (stream.Readable, stream.Writable, through2,  *)
(* pump, end-of-stream) are modelled as Node 10 runs them (the version the *)
(* repository's docker script pins) for an object-mode pipe with one       *)
(* destination per stream.                                                 *)
(*                                                                         *)
(* A state of the streams is kept in one record per object; the helpers    *)
(* below take the whole world w (a record of those records) and return the *)
(* world after the call, so that a synchronous chain of calls such as      *)
(* push -> 'data' -> write -> _transform is one expression.                *)
(***************************************************************************)
EXTENDS Naturals, Sequences, FiniteSets, TLC

VARIABLES
    docs,       \* the collection in key order: docs[i] is what document i is like
    options,    \* the options object given to mutateAllDocs
    faults,     \* how many database calls have answered with an error so far
    source,     \* the CouchDbReadStream and its _readableState
    transform,  \* the mississippi.through.obj stream (writable and readable side)
    target,     \* the CouchDbWriteStream and its _writableState
    pump,       \* mississippi.pipe's bookkeeping (first error, destroyers)
    promise,    \* the promise mutateAllDocs returns
    stats,      \* the stats object of mutateAllDocs
    loop,       \* the event loop: nextTick queue, microtask queue, phase
    db,         \* the database: calls in flight and the stored bodies
    hist,       \* what happened so far, in order (a history variable)
    replication, \* a call of replicateWithoutDesignDocs and the job at the server
    views       \* a call of refreshViews and the indexers at the server

vars == <<docs, options, faults, source, transform, target, pump, promise,
          stats, loop, db, hist, replication, views>>

(***************************************************************************)
(* Bounds of the model and constants of the program.                       *)
(***************************************************************************)
\* Collections of up to MaxSmall documents are enumerated with every kind of
\* document at every place.
MaxSmall == 2
\* Long collections (more than one page) have up to MaxDocs documents.
MaxDocs == 17
\* At most MaxFaults database calls answer with an error in one run.
MaxFaults == 1

\* The highWaterMark of an object-mode stream, which the Readable passes to
\* _read as size.
HighWaterMark == 16
\* limit: size || 10
DefaultLimit == 10
\* process.nextTick(() => this._read(10))
SelfReadSize == 10
\* this._key = null
null == 0

(***************************************************************************)
(* Documents.  A document in memory is [id, v, ord]: v is its content (0   *)
(* as stored at first, then what the mutator made of it) and ord the       *)
(* insertion order of its keys.  What the caller's mutator and validator   *)
(* do with document i is given by docs[i].                                 *)
(***************************************************************************)
Muts == {"same", "reorder", "idem", "nonidem"}

\* The kinds of document a collection is made of: a design document (which
\* the mutator would change and the validator refuse, were they called), a
\* document the mutator leaves alone or only reorders (which the validator
\* would refuse), and documents the mutator changes, idempotently or not,
\* into a valid or an invalid document.
Kinds == {[design |-> TRUE, mut |-> "nonidem", valid |-> FALSE],
          [design |-> FALSE, mut |-> "same", valid |-> FALSE],
          [design |-> FALSE, mut |-> "reorder", valid |-> FALSE]} \cup
         [design : {FALSE}, mut : {"idem", "nonidem"}, valid : BOOLEAN]

Plain(m) == [design |-> FALSE, mut |-> m, valid |-> TRUE]

NoChunk == [id |-> 0, v |-> 0, ord |-> 0]

NoError == [type |-> "none", id |-> 0]
Premature == [type |-> "premature close", id |-> 0]

\* The state of a function of CouchDbUtils that has not been called.
NotCalled == [pc |-> "idle"]

NoOpts == [include_docs |-> FALSE, startkey |-> null, skip |-> 0, limit |-> 0]

Min(a, b) == IF a < b THEN a ELSE b

\* A check of the _id that finds no design document.
NoDesign(doc) == FALSE

\* doc._id.startsWith("_design/")
IsDesign(doc) == docs[doc.id].design

\* options.mutator(doc): changes the document in place.
mutator(doc) ==
    CASE docs[doc.id].mut = "same" -> doc
      [] docs[doc.id].mut = "reorder" -> [doc EXCEPT !.ord = 1 - @]
      [] docs[doc.id].mut = "idem" -> [doc EXCEPT !.v = 1]
      [] docs[doc.id].mut = "nonidem" -> [doc EXCEPT !.v = @ + 1]

\* options.validator(doc)
validator(doc) == docs[doc.id].valid

\* JSON.stringify writes the keys in insertion order: the order is in the
\* string.
JSONstringify(doc) == <<doc.id, doc.v, doc.ord>>

\* json-stable-stringify sorts the keys: the insertion order is not in the
\* string.
jsonStableStringify(doc) == <<doc.id, doc.v>>

(***************************************************************************)
(* The world and its small helpers.                                        *)
(***************************************************************************)
World == [source |-> source, transform |-> transform, target |-> target,
          pump |-> pump, promise |-> promise, stats |-> stats, loop |-> loop,
          db |-> db, hist |-> hist]

Event(e, id, a, b, c, x) == [e |-> e, id |-> id, a |-> a, b |-> b, c |-> c, x |-> x]

Log(w, ev) == [w EXCEPT !.hist = Append(@, ev)]

nextTick(w, task) == [w EXCEPT !.loop.ticks = Append(@, task)]

microtask(w, task, opts) ==
    [w EXCEPT !.loop.micro = Append(@, [task |-> task, opts |-> opts])]

\* _writableState.length of a writable side: the chunk being written and the
\* buffered ones.
WLen(s) == Len(s.wbuffer) + (IF s.writing = NoChunk THEN 0 ELSE 1)

(***************************************************************************)
(* reportProgress                                                          *)
(***************************************************************************)
\* A message that names the two counters the other way round.
messageSwapped(processed, total, written, ignored) ==
    ToString(processed) \o "/" \o ToString(total) \o ", " \o
    ToString(ignored) \o " written" \o ", " \o
    ToString(written) \o " ignored"

\* The message of a report: the three parts joined by ", ".
message(processed, total, written, ignored) ==
    ToString(processed) \o "/" \o ToString(total) \o ", " \o
    ToString(written) \o " written" \o ", " \o
    ToString(ignored) \o " ignored"

\* A reportProgress that skipped when either condition said so.
reportProgressEither(w) ==
    IF ~options.eventEmitter THEN w
    ELSE LET reportFrequency == IF options.reportFrequency = 0 THEN 1
                                ELSE options.reportFrequency
             processed == w.stats.written + w.stats.ignored
             skipReport == processed # w.stats.total \/
                           (processed % reportFrequency) # 0
         IN IF skipReport THEN w
            ELSE Log(w, Event("progress", processed, w.stats.total,
                              w.stats.written, w.stats.ignored,
                              message(processed, w.stats.total,
                                      w.stats.written, w.stats.ignored)))

\* reportProgress without the exception for processed = stats.total: the
\* report is skipped whenever processed is no multiple of the frequency.
reportProgressNoFinal(w) ==
    IF ~options.eventEmitter THEN w
    ELSE LET reportFrequency == IF options.reportFrequency = 0 THEN 1
                                ELSE options.reportFrequency
             processed == w.stats.written + w.stats.ignored
             skipReport == (processed % reportFrequency) # 0
         IN IF skipReport THEN w
            ELSE Log(w, Event("progress", processed, w.stats.total,
                              w.stats.written, w.stats.ignored,
                              message(processed, w.stats.total,
                                      w.stats.written, w.stats.ignored)))

\* reportProgress(): options.eventEmitter.emit("progress", message) unless
\* there is no emitter or the report is skipped.  reportFrequency 0 stands
\* for an option that was not given.
reportProgress(w) ==
    IF ~options.eventEmitter THEN w
    ELSE LET reportFrequency == IF options.reportFrequency = 0 THEN 1
                                ELSE options.reportFrequency
             processed == w.stats.written + w.stats.ignored
             skipReport == processed # w.stats.total /\
                           (processed % reportFrequency) # 0
         IN IF skipReport THEN w
            ELSE Log(w, Event("progress", processed, w.stats.total,
                              w.stats.written, w.stats.ignored,
                              message(processed, w.stats.total,
                                      w.stats.written, w.stats.ignored)))

(***************************************************************************)
(* mississippi.pipe (pump with end-of-stream on every stream).             *)
(***************************************************************************)
\* The callback given to mississippi.pipe: reject(err) or resolve().
pipeCallback(w, err) ==
    IF w.promise.state # "pending" THEN w
    ELSE IF err # NoError
         THEN Log([w EXCEPT !.promise = [state |-> "rejected", reason |-> err]],
                  Event("reject", err.id, 0, 0, 0, err.type))
         ELSE Log([w EXCEPT !.promise = [state |-> "resolved", reason |-> NoError]],
                  Event("resolve", 0, 0, 0, 0, ""))

\* pump's destroyer of one stream: stream.destroy(), once, unless the stream
\* has closed.  A destroyed stream emits 'close' on the next tick.
destroy(w, s) ==
    IF s \in w.pump.closed \/ s \in w.pump.destroyed THEN w
    ELSE LET w1 == [w EXCEPT !.pump.destroyed = @ \cup {s}]
         IN CASE s = "source" ->
                   IF w1.source.destroyed THEN w1
                   ELSE nextTick([w1 EXCEPT !.source.destroyed = TRUE], "close_source")
              [] s = "transform" ->
                   IF w1.transform.destroyed THEN w1
                   ELSE nextTick([w1 EXCEPT !.transform.destroyed = TRUE], "close_transform")
              [] s = "target" ->
                   IF w1.target.destroyed THEN w1
                   ELSE nextTick([w1 EXCEPT !.target.destroyed = TRUE], "close_target")

destroyAll(w) == destroy(destroy(destroy(w, "source"), "transform"), "target")

\* A pump that kept the last error instead of the first.
LastError(old, err) == IF err = NoError THEN old ELSE err

\* The error pump keeps: the first one.
FirstError(old, err) == IF old = NoError THEN err ELSE old

\* pump's callback of one stream's end-of-stream (called once per stream):
\* keep the first error, on an error destroy every stream, and when the stream
\* is the last one call the pipe's callback.
destroyerCallback(w, s, err) ==
    IF s \in w.pump.called THEN w
    ELSE LET w1 == [w EXCEPT !.pump.called = @ \cup {s},
                             !.pump.error = FirstError(@, err),
                             !.pump.closed = IF err = NoError THEN @ \cup {s} ELSE @]
             w2 == IF err # NoError THEN destroyAll(w1) ELSE w1
         IN IF s # "target" THEN w2
            ELSE pipeCallback(destroyAll(w2), w2.pump.error)

\* Readable.unpipe: the stream stops flowing.
unpipe(w, s) ==
    IF s = "source"
    THEN [w EXCEPT !.source.piped = FALSE, !.source.flowing = FALSE]
    ELSE [w EXCEPT !.transform.piped = FALSE, !.transform.flowing = FALSE]

\* stream.emit("error", err): the pipe into the stream unpipes it, and
\* end-of-stream hands the error to pump.
emitError(w, s, err) ==
    LET w1 == Log(w, Event("error", err.id, 0, 0, 0, err.type))
        w2 == CASE s = "source" -> w1
                [] s = "transform" -> unpipe(w1, "source")
                [] s = "target" -> unpipe(w1, "transform")
    IN destroyerCallback(w2, s, err)

(***************************************************************************)
(* CouchDbWriteStream (stream.Writable)                                    *)
(***************************************************************************)
\* CouchDbWriteStream._write: this._db.put(chunk, callback)
_write(w, chunk) ==
    Log([w EXCEPT !.target.writing = chunk, !.db.put = Append(@, chunk)],
        Event("put", chunk.id, chunk.v, 0, 0, ""))

\* A write that hands every chunk to _write at once, buffering none.
targetWriteNoBuffer(w, chunk) ==
    LET full == WLen(w.target) + 1 >= HighWaterMark
        w1 == [w EXCEPT !.target.needDrain = @ \/ full]
    IN _write(w1, chunk)

\* Writable.write on the target: write now or buffer; the caller sees false
\* when the length has reached the highWaterMark.
targetWrite(w, chunk) ==
    LET full == WLen(w.target) + 1 >= HighWaterMark
        w1 == [w EXCEPT !.target.needDrain = @ \/ full]
    IN IF w.target.writing # NoChunk
       THEN [w1 EXCEPT !.target.wbuffer = Append(@, chunk)]
       ELSE _write(w1, chunk)

\* A finishMaybe that did not wait for the writes still to be answered.
targetFinishEarly(w) ==
    IF w.target.ending /\ ~w.target.finished
    THEN destroyerCallback([w EXCEPT !.target.finished = TRUE], "target", NoError)
    ELSE w

\* finishMaybe: 'finish' once end() was called and nothing is left to write.
targetFinishMaybe(w) ==
    IF w.target.ending /\ WLen(w.target) = 0 /\ ~w.target.finished
    THEN destroyerCallback([w EXCEPT !.target.finished = TRUE], "target", NoError)
    ELSE w

\* Writable.end on the target (the transform's 'end' through the pipe).
targetEnd(w) == targetFinishMaybe([w EXCEPT !.target.ending = TRUE])

(***************************************************************************)
(* The transform stream (through2: readable-stream's Transform)            *)
(***************************************************************************)
\* Transform._read: run _transform on the waiting chunk, or note that the
\* readable side asked.  _transform is the function given to through.obj: it
\* starts a promise chain, which runs as a microtask.
Transform_read(w) ==
    IF w.transform.writing # NoChunk /\ ~w.transform.transforming
    THEN microtask([w EXCEPT !.transform.transforming = TRUE], "transform", NoOpts)
    ELSE [w EXCEPT !.transform.needTransform = TRUE]

\* Transform._write
Transform_write(w, chunk) ==
    LET w1 == [w EXCEPT !.transform.writing = chunk]
    IN IF ~w1.transform.transforming /\
          (w1.transform.needTransform \/ Len(w1.transform.rbuffer) < HighWaterMark)
       THEN Transform_read(w1)
       ELSE w1

\* Writable.write on the transform.
transformWrite(w, chunk) ==
    LET full == WLen(w.transform) + 1 >= HighWaterMark
        w1 == [w EXCEPT !.transform.needDrain = @ \/ full]
    IN IF w.transform.writing # NoChunk
       THEN [w1 EXCEPT !.transform.wbuffer = Append(@, chunk)]
       ELSE Transform_write(w1, chunk)

\* endReadable of the transform's readable side: 'end' on the next tick.
transformEndReadable(w) ==
    IF w.transform.endEmitted THEN w ELSE nextTick(w, "endReadable_transform")

\* The pipe's 'data' listener on the transform: write to the target and pause
\* when the target says to wait.
transformOnData(w, chunk) ==
    LET w1 == targetWrite(w, chunk)
    IN IF WLen(w1.target) >= HighWaterMark
       THEN [w1 EXCEPT !.transform.flowing = FALSE]
       ELSE w1

\* Readable.push on the transform.
transformPush(w, chunk) ==
    LET w1 == [w EXCEPT !.transform.needTransform = FALSE]
    IN IF w1.transform.flowing /\ w1.transform.rbuffer = <<>>
       THEN transformOnData(w1, chunk)
       ELSE [w1 EXCEPT !.transform.rbuffer = Append(@, chunk)]

\* flow() on the transform's readable side: read() until paused or empty.
RECURSIVE transformFlow(_)
transformFlow(w) ==
    IF ~w.transform.flowing THEN w
    ELSE IF w.transform.rbuffer = <<>>
    THEN IF w.transform.ended THEN transformEndReadable(w) ELSE Transform_read(w)
    ELSE LET chunk == Head(w.transform.rbuffer)
             w1 == IF ~w.transform.ended /\
                      Len(w.transform.rbuffer) - 1 < HighWaterMark
                   THEN Transform_read(w) ELSE w
             w2 == [w1 EXCEPT !.transform.rbuffer = Tail(@)]
             w3 == IF w2.transform.rbuffer = <<>> /\ w2.transform.ended
                   THEN transformEndReadable(w2) ELSE w2
         IN transformFlow(transformOnData(w3, chunk))

\* The target's 'drain' through the pipe.
targetDrain(w) ==
    IF w.transform.piped
    THEN transformFlow([w EXCEPT !.transform.flowing = TRUE])
    ELSE w

\* push(null) on the transform's readable side.
transformPushNull(w) ==
    LET w1 == [w EXCEPT !.transform.ended = TRUE]
    IN IF w1.transform.flowing /\ w1.transform.rbuffer = <<>>
       THEN transformEndReadable(w1)
       ELSE w1

\* finishMaybe of the transform's writable side: 'prefinish' pushes null to
\* the readable side, then 'finish'.
transformFinishMaybe(w) ==
    IF w.transform.ending /\ WLen(w.transform) = 0 /\ ~w.transform.finished
    THEN LET w1 == transformPushNull([w EXCEPT !.transform.finished = TRUE])
             w2 == IF w1.transform.endEmitted
                   THEN destroyerCallback(w1, "transform", NoError) ELSE w1
         IN unpipe(w2, "source")
    ELSE w

\* Writable.end on the transform (the source's 'end' through the pipe).
transformEnd(w) == transformFinishMaybe([w EXCEPT !.transform.ending = TRUE])

(***************************************************************************)
(* CouchDbReadStream (stream.Readable)                                     *)
(***************************************************************************)
\* A _read that forgot to skip the start key itself.
_readNoSkip(w, size) ==
    IF w.source.reading THEN Log(w, Event("_read", size, Len(w.source.buffer), 0, 0, "busy"))
    ELSE microtask(Log([w EXCEPT !.source.reading = TRUE],
                       Event("_read", size, Len(w.source.buffer), 0, 0, "fetch")), "allDocs",
                   [include_docs |-> TRUE,
                    startkey |-> w.source._key,
                    skip |-> 0,
                    limit |-> IF size = 0 THEN DefaultLimit ELSE size])

\* A _read that asked for pages of the default limit whatever size it got.
_readDefaultLimit(w, size) ==
    IF w.source.reading THEN Log(w, Event("_read", size, Len(w.source.buffer), 0, 0, "busy"))
    ELSE microtask(Log([w EXCEPT !.source.reading = TRUE],
                       Event("_read", size, Len(w.source.buffer), 0, 0, "fetch")), "allDocs",
                   [include_docs |-> TRUE,
                    startkey |-> w.source._key,
                    skip |-> IF w.source._key = null THEN 0 ELSE 1,
                    limit |-> DefaultLimit])

\* A _read without the guard against a fetch that is outstanding.
_readUnguarded(w, size) ==
    microtask(Log([w EXCEPT !.source.reading = TRUE],
                  Event("_read", size, Len(w.source.buffer), 0, 0, "fetch")), "allDocs",
              [include_docs |-> TRUE,
               startkey |-> w.source._key,
               skip |-> IF w.source._key = null THEN 0 ELSE 1,
               limit |-> IF size = 0 THEN DefaultLimit ELSE size])

\* CouchDbReadStream._read(size): nothing while a fetch is outstanding; else
\* the options are built now and db.allDocs is called from a microtask.
\* The history notes the size asked for, how many documents the buffer of
\* the stream held at the call, and whether a fetch was issued.
_read(w, size) ==
    IF w.source.reading THEN Log(w, Event("_read", size, Len(w.source.buffer), 0, 0, "busy"))
    ELSE microtask(Log([w EXCEPT !.source.reading = TRUE],
                       Event("_read", size, Len(w.source.buffer), 0, 0, "fetch")), "allDocs",
                   [include_docs |-> TRUE,
                    startkey |-> w.source._key,
                    skip |-> IF w.source._key = null THEN 0 ELSE 1,
                    limit |-> IF size = 0 THEN DefaultLimit ELSE size])

\* endReadable of the source: 'end' on the next tick.
sourceEndReadable(w) ==
    IF w.source.endEmitted THEN w ELSE nextTick(w, "endReadable_source")

\* What Readable.read does before it takes a chunk: it calls _read with the
\* highWaterMark when the stream has not ended, no _read is unanswered and
\* the buffer after this read is below the highWaterMark.
sourceDoRead(w, n) ==
    IF ~w.source.ended /\ ~w.source.rsReading /\
       (Len(w.source.buffer) = 0 \/ Len(w.source.buffer) - n < HighWaterMark)
    THEN _read([w EXCEPT !.source.rsReading = TRUE], HighWaterMark)
    ELSE w

\* Readable.read(0)
sourceRead0(w) ==
    IF w.source.ended
    THEN IF w.source.buffer = <<>> THEN sourceEndReadable(w) ELSE w
    ELSE sourceDoRead(w, 0)

\* The pipe's 'data' listener on the source: write to the transform and pause
\* when the transform says to wait.
onData(w, chunk) ==
    LET w1 == transformWrite(w, chunk)
    IN IF WLen(w1.transform) >= HighWaterMark
       THEN [w1 EXCEPT !.source.flowing = FALSE]
       ELSE w1

\* flow() on the source: read() until paused or empty.
RECURSIVE flow(_)
flow(w) ==
    IF ~w.source.flowing THEN w
    ELSE IF w.source.buffer = <<>>
    THEN IF w.source.ended THEN sourceEndReadable(w) ELSE sourceDoRead(w, 1)
    ELSE LET chunk == Head(w.source.buffer)
             w1 == sourceDoRead(w, 1)
             w2 == [w1 EXCEPT !.source.buffer = Tail(@)]
             w3 == IF w2.source.buffer = <<>> /\ w2.source.ended
                   THEN sourceEndReadable(w2) ELSE w2
         IN flow(onData(w3, chunk))

\* The transform's 'drain' through the pipe.
pipeOnDrain(w) ==
    IF w.source.piped THEN flow([w EXCEPT !.source.flowing = TRUE]) ELSE w

\* maybeReadMore: maybeReadMore_ on the next tick, once.
maybeReadMore(w) ==
    IF w.source.readingMore THEN w
    ELSE nextTick([w EXCEPT !.source.readingMore = TRUE], "maybeReadMore")

\* Readable.push(chunk) on the source: ignored once destroyed; given to the
\* 'data' listener when flowing with an empty buffer, buffered otherwise.
push(w, chunk) ==
    IF w.source.ended
    THEN emitError(w, "source", [type |-> "push after EOF", id |-> chunk.id])
    ELSE IF w.source.destroyed THEN w
    ELSE LET w1 == Log([w EXCEPT !.source.rsReading = FALSE],
                       Event("push", chunk.id, 0, 0, 0, ""))
             w2 == IF w1.source.flowing /\ w1.source.buffer = <<>>
                   THEN onData(w1, chunk)
                   ELSE [w1 EXCEPT !.source.buffer = Append(@, chunk)]
         IN maybeReadMore(w2)

\* A push that said "more" whatever the buffer holds.
pushResultAlways(w) == ~w.source.ended /\ ~w.source.destroyed

\* What push returned: whether the stream wants more.
pushResult(w) ==
    ~w.source.ended /\ ~w.source.destroyed /\ Len(w.source.buffer) < HighWaterMark

\* Readable.push(null) on the source: the end of the stream, noted once.
pushNull(w) ==
    LET w0 == Log([w EXCEPT !.source.rsReading = FALSE],
                  Event("push", null, 0, 0, 0, "null"))
    IN IF w0.source.ended THEN w0
       ELSE LET w1 == [w0 EXCEPT !.source.ended = TRUE]
            IN IF w1.source.flowing /\ w1.source.buffer = <<>>
               THEN sourceEndReadable(w1)
               ELSE w1

\* db.allDocs(opts) on the collection: the rows after the start key.
allDocsRows(opts) ==
    LET from == (IF opts.startkey = null THEN 1 ELSE opts.startkey) + opts.skip
        to == Min(Len(docs), from + opts.limit - 1)
    IN [i \in 1..(IF to + 1 > from THEN to + 1 - from ELSE 0) |-> from + i - 1]

\* result.rows.forEach(row => { lastPushResult = this.push(row.doc); })
RECURSIVE pushRows(_, _)
pushRows(w, rows) ==
    IF rows = <<>> THEN w
    ELSE pushRows(push(w, [id |-> Head(rows), v |-> w.db.docs[Head(rows)], ord |-> 0]),
                  Tail(rows))

\* A position taken from the first row of a page.
FirstKey(rows) == rows[1]

\* The position the stream keeps after a page.
LastKey(rows) == rows[Len(rows)]

\* A listener that kept the count of the first page only.
onTotalOnce(w, val) ==
    IF \E k \in DOMAIN w.hist : w.hist[k].e = "total" THEN w
    ELSE Log([w EXCEPT !.stats.total = val], Event("total", val, 0, 0, 0, ""))

\* source.on("total", val => stats.total = val), called by
\* this.emit("total", result.total_rows) of every page.
onTotal(w, val) ==
    Log([w EXCEPT !.stats.total = val], Event("total", val, 0, 0, 0, ""))

\* A page handler that forgot this.reading = false.
onAllDocsStillReading(w, opts) ==
    LET rows == allDocsRows(opts)
        w1 == onTotal(Log(w, Event("page", Len(rows), opts.startkey, opts.skip,
                                   opts.limit, "")),
                      Len(docs))
    IN IF Len(rows) = 0 THEN pushNull(w1)
       ELSE LET w2 == pushRows([w1 EXCEPT !.source._key = LastKey(rows)], rows)
            IN IF pushResult(w2) THEN nextTick(w2, "selfRead") ELSE w2

\* The .then(result => ...) of _read.
onAllDocs(w, opts) ==
    LET rows == allDocsRows(opts)
        w0 == onTotal(Log(w, Event("page", Len(rows), opts.startkey, opts.skip,
                                   opts.limit, "")),
                      Len(docs))
        w1 == [w0 EXCEPT !.source.reading = FALSE]
    IN IF Len(rows) = 0 THEN pushNull(w1)
       ELSE LET w2 == pushRows([w1 EXCEPT !.source._key = LastKey(rows)], rows)
            IN IF pushResult(w2) THEN nextTick(w2, "selfRead") ELSE w2

\* A .catch that swallowed the error and fetched again.
onAllDocsErrorRetries(w, err) ==
    _read([w EXCEPT !.source.reading = FALSE], SelfReadSize)

\* The .catch(err => this.emit("error", err)) of _read.
onAllDocsError(w, err) == emitError(w, "source", err)

(***************************************************************************)
(* The transform function of mutateAllDocs and what follows its callback.  *)
(***************************************************************************)
\* onwrite of the transform's writable side, after the chunk was given up.
transformOnWrite(w, er) ==
    IF er # NoError THEN emitError(w, "transform", er)
    ELSE LET w1 == IF w.transform.wbuffer # <<>>
                   THEN Transform_write([w EXCEPT !.transform.wbuffer = Tail(@)],
                                        Head(w.transform.wbuffer))
                   ELSE w
             w2 == IF WLen(w1.transform) = 0 /\ w1.transform.needDrain
                   THEN pipeOnDrain([w1 EXCEPT !.transform.needDrain = FALSE])
                   ELSE w1
         IN transformFinishMaybe(w2)

\* afterTransform: the callback the transform function calls.
afterTransform(w, er, data) ==
    LET w1 == [w EXCEPT !.transform.transforming = FALSE,
                        !.transform.writing = NoChunk]
        w2 == IF data # NoChunk THEN transformPush(w1, data) ELSE w1
        w3 == transformOnWrite(w2, er)
    IN IF Len(w3.transform.rbuffer) < HighWaterMark THEN Transform_read(w3) ELSE w3

\* A transform that did not skip design documents.
NeverSkipDesign(doc) == FALSE

\* The document is skipped when it is a design document.
SkipDesign(doc) == IsDesign(doc)

\* A transform that took every mutated document for a changed one.
NeverUnchanged(original, transformed) == FALSE

\* The unchanged check: original === transformed.
Unchanged(original, transformed) == original = transformed

\* A transform that called the validator and ignored its answer.
ValidationNeverFails(doc) == FALSE

\* The validator check: a validator is given and it rejects the document.
ValidationFails(doc) == options.validator /\ ~validator(doc)

\* A transform that mutated twice and did not compare.
IdempotencyNeverFails(doc, transformed) == FALSE

\* The idempotency check: asked for, and a second mutation changes the string.
IdempotencyFails(doc, transformed) ==
    options.verifyIdempotent /\ transformed # jsonStableStringify(mutator(doc))

\* A first .then that verified idempotency before it validated.
decideIdempotencyFirst(doc) ==
    IF SkipDesign(doc)
    THEN [changed |-> "false", doc |-> doc, err |-> NoError, calls |-> <<>>]
    ELSE LET original == jsonStableStringify(doc)
             doc1 == mutator(doc)
             transformed == jsonStableStringify(doc1)
             m == Event("mutator", doc.id, 0, 0, 0, "")
             v == IF options.validator
                  THEN <<Event("validator", doc.id, 0, 0, 0, "")>> ELSE <<>>
         IN IF Unchanged(original, transformed)
            THEN [changed |-> "false", doc |-> doc1, err |-> NoError, calls |-> <<m>>]
            ELSE IF IdempotencyFails(doc1, transformed)
            THEN [changed |-> "throw", doc |-> mutator(doc1),
                  err |-> [type |-> "Idempotency check failed", id |-> doc.id],
                  calls |-> <<m, m>>]
            ELSE IF ValidationFails(doc1)
            THEN [changed |-> "throw", doc |-> doc1,
                  err |-> [type |-> "Validation failed", id |-> doc.id],
                  calls |-> <<m>> \o (IF options.verifyIdempotent THEN <<m>> ELSE <<>>)
                               \o v]
            ELSE [changed |-> "true",
                  doc |-> IF options.verifyIdempotent THEN mutator(doc1) ELSE doc1,
                  err |-> NoError,
                  calls |-> <<m>> \o (IF options.verifyIdempotent THEN <<m>> ELSE <<>>)
                               \o v]

\* The first .then of the transform function: what it returns or throws, the
\* document as it has become, and the calls it made.
decide(doc) ==
    IF SkipDesign(doc)
    THEN [changed |-> "false", doc |-> doc, err |-> NoError, calls |-> <<>>]
    ELSE LET original == jsonStableStringify(doc)
             doc1 == mutator(doc)
             transformed == jsonStableStringify(doc1)
             m == Event("mutator", doc.id, 0, 0, 0, "")
             v == IF options.validator
                  THEN <<Event("validator", doc.id, 0, 0, 0, "")>> ELSE <<>>
         IN IF Unchanged(original, transformed)
            THEN [changed |-> "false", doc |-> doc1, err |-> NoError, calls |-> <<m>>]
            ELSE IF ValidationFails(doc1)
            THEN [changed |-> "throw", doc |-> doc1,
                  err |-> [type |-> "Validation failed", id |-> doc.id],
                  calls |-> <<m>> \o v]
            ELSE IF IdempotencyFails(doc1, transformed)
            THEN [changed |-> "throw", doc |-> mutator(doc1),
                  err |-> [type |-> "Idempotency check failed", id |-> doc.id],
                  calls |-> <<m>> \o v \o <<m>>]
            ELSE [changed |-> "true",
                  doc |-> IF options.verifyIdempotent THEN mutator(doc1) ELSE doc1,
                  err |-> NoError,
                  calls |-> <<m>> \o v \o
                            (IF options.verifyIdempotent THEN <<m>> ELSE <<>>)]

\* A skip that forgot reportProgress().
ignoreUnreported(w, doc) ==
    afterTransform(Log([w EXCEPT !.stats.ignored = @ + 1],
                       Event("ignored", doc.id, 0, 0, 0, "")),
                   NoError, NoChunk)

\* A skip that forgot stats.ignored++.
ignoreUncounted(w, doc) ==
    afterTransform(reportProgress(Log(w, Event("ignored", doc.id, 0, 0, 0, ""))),
                   NoError, NoChunk)

\* A skipped document: stats.ignored++; reportProgress(); callback(null).
ignore(w, doc) ==
    afterTransform(reportProgress(Log([w EXCEPT !.stats.ignored = @ + 1],
                                      Event("ignored", doc.id, 0, 0, 0, ""))),
                   NoError, NoChunk)

\* A transform function that dropped the documents it does not pass without
\* counting them.
transformFunctionSilent(w) ==
    LET d == decide(w.transform.writing)
        w1 == [w EXCEPT !.hist = @ \o d.calls]
    IN CASE d.changed = "true" ->
                afterTransform(Log(w1, Event("pass", d.doc.id, d.doc.v, 0, 0, "")),
                               NoError, d.doc)
         [] d.changed = "false" -> afterTransform(w1, NoError, NoChunk)
         [] d.changed = "throw" -> afterTransform(w1, d.err, NoChunk)

\* The function given to mississippi.through.obj, with its promise chain.
transformFunction(w) ==
    LET d == decide(w.transform.writing)
        w1 == [w EXCEPT !.hist = @ \o d.calls]
    IN CASE d.changed = "true" ->
                afterTransform(Log(w1, Event("pass", d.doc.id, d.doc.v, 0, 0, "")),
                               NoError, d.doc)
         [] d.changed = "false" -> ignore(w1, d.doc)
         [] d.changed = "throw" -> afterTransform(w1, d.err, NoChunk)

(***************************************************************************)
(* The write stream's callback of db.put                                   *)
(***************************************************************************)
\* A 'document-write' listener that counts the write and reports nothing.
onDocumentWriteSilent(w, chunk) ==
    Log([w EXCEPT !.stats.written = @ + 1],
        Event("document-write", chunk.id, 0, 0, 0, ""))

\* The target's 'document-write' listener in mutateAllDocs.
onDocumentWrite(w, chunk) ==
    reportProgress(Log([w EXCEPT !.stats.written = @ + 1],
                       Event("document-write", chunk.id, 0, 0, 0, "")))

\* onwrite of the target: on an error emit it; else write the next buffered
\* chunk, emit 'drain' when the buffer has emptied, and finish when ended.
targetOnWrite(w, er) ==
    LET w0 == [w EXCEPT !.target.writing = NoChunk]
    IN IF er # NoError THEN emitError(w0, "target", er)
       ELSE LET w1 == IF w0.target.wbuffer # <<>>
                      THEN _write([w0 EXCEPT !.target.wbuffer = Tail(@)],
                                  Head(w0.target.wbuffer))
                      ELSE w0
                w2 == IF WLen(w1.target) = 0 /\ w1.target.needDrain
                      THEN targetDrain([w1 EXCEPT !.target.needDrain = FALSE])
                      ELSE w1
            IN targetFinishMaybe(w2)

\* A callback that emitted 'document-write' whatever db.put answered.
onPutAlwaysWritten(w, err) ==
    targetOnWrite(onDocumentWrite(w, w.target.writing), err)

\* The callback CouchDbWriteStream._write gives to db.put.
onPut(w, err) ==
    LET chunk == w.target.writing
        w1 == IF err = NoError THEN onDocumentWrite(w, chunk) ELSE w
    IN targetOnWrite(w1, err)

(***************************************************************************)
(* Callbacks the streams put on the nextTick queue.                        *)
(***************************************************************************)
\* resume_ of the source (scheduled by pipe): read(0), then flow.
sourceResume(w) ==
    LET w1 == IF ~w.source.rsReading THEN sourceRead0(w) ELSE w
        w2 == flow(w1)
    IN IF w2.source.flowing /\ ~w2.source.rsReading THEN sourceRead0(w2) ELSE w2

\* resume_ of the transform's readable side.
transformResume(w) == transformFlow(Transform_read(w))

\* maybeReadMore_ of the source: read(0) while not flowing and below the
\* highWaterMark.
maybeReadMore_(w) ==
    LET w1 == IF ~w.source.rsReading /\ ~w.source.flowing /\ ~w.source.ended /\
                 Len(w.source.buffer) < HighWaterMark
              THEN sourceRead0(w) ELSE w
    IN [w1 EXCEPT !.source.readingMore = FALSE]

\* process.nextTick(() => this._read(10))
selfRead(w) == _read(w, SelfReadSize)

\* endReadableNT of the source: 'end', which end-of-stream reports to pump and
\* the pipe turns into transform.end().
sourceEndReadableNT(w) ==
    IF w.source.endEmitted \/ w.source.buffer # <<>> THEN w
    ELSE LET w1 == destroyerCallback([w EXCEPT !.source.endEmitted = TRUE],
                                     "source", NoError)
         IN IF w1.source.piped THEN transformEnd(w1) ELSE w1

\* endReadableNT of the transform: 'end', which the pipe turns into
\* target.end().
transformEndReadableNT(w) ==
    IF w.transform.endEmitted \/ w.transform.rbuffer # <<>> THEN w
    ELSE LET w1 == [w EXCEPT !.transform.endEmitted = TRUE]
             w2 == IF w1.transform.finished
                   THEN destroyerCallback(w1, "transform", NoError) ELSE w1
         IN IF w2.transform.piped THEN targetEnd(w2) ELSE w2

\* end-of-stream's view of a closing stream: it closed before it ended.
ClosedEarly(w, s) ==
    CASE s = "source" -> ~w.source.endEmitted /\ ~w.source.ended
      [] s = "transform" -> (~w.transform.endEmitted /\ ~w.transform.ended) \/
                            (~w.transform.finished /\ ~w.transform.ending)
      [] s = "target" -> ~w.target.finished /\ ~w.target.ending

\* 'close' of a destroyed stream: pump notes it, end-of-stream reports a
\* premature close, and the pipe into the stream unpipes.
emitClose(w, s) ==
    LET w1 == [w EXCEPT !.pump.closed = @ \cup {s}]
        w2 == IF ClosedEarly(w1, s) THEN destroyerCallback(w1, s, Premature) ELSE w1
    IN CASE s = "source" -> w2
         [] s = "transform" -> unpipe(w2, "source")
         [] s = "target" -> unpipe(w2, "transform")

(***************************************************************************)
(* The state before mutateAllDocs is called.                               *)
(***************************************************************************)
SmallCollections == UNION {[1..n -> Kinds] : n \in 0..MaxSmall}

LongCollections ==
    {[i \in 1..n |-> IF i = n THEN k ELSE Plain(m)] :
        n \in HighWaterMark..MaxDocs, m \in {"idem", "same"}, k \in Kinds}

Options ==
    {o \in [validator : BOOLEAN, verifyIdempotent : BOOLEAN,
            eventEmitter : BOOLEAN, reportFrequency : {0, 1, 2}] :
        ~o.eventEmitter => o.reportFrequency = 0}

\* A long collection is run with every check and report switched on.
LongOptions == [validator |-> TRUE, verifyIdempotent |-> TRUE,
                eventEmitter |-> TRUE, reportFrequency |-> 2]

\* The streams, the promise and the counters before the run starts.
InitStreams ==
    /\ source = [reading |-> FALSE, _key |-> null, buffer |-> <<>>,
                 flowing |-> FALSE, rsReading |-> FALSE, readingMore |-> FALSE,
                 ended |-> FALSE, endEmitted |-> FALSE, destroyed |-> FALSE,
                 piped |-> FALSE]
    /\ transform = [wbuffer |-> <<>>, writing |-> NoChunk, transforming |-> FALSE,
                    needTransform |-> FALSE, needDrain |-> FALSE,
                    ending |-> FALSE, finished |-> FALSE,
                    rbuffer |-> <<>>, flowing |-> FALSE, ended |-> FALSE,
                    endEmitted |-> FALSE, destroyed |-> FALSE, piped |-> FALSE]
    /\ target = [wbuffer |-> <<>>, writing |-> NoChunk, needDrain |-> FALSE,
                 ending |-> FALSE, finished |-> FALSE, destroyed |-> FALSE]
    /\ pump = [error |-> NoError, called |-> {}, closed |-> {}, destroyed |-> {}]
    /\ promise = [state |-> "idle", reason |-> NoError]
    /\ stats = [total |-> 0, ignored |-> 0, written |-> 0]
    /\ loop = [ticks |-> <<>>, micro |-> <<>>, phase |-> "tick"]
    /\ db = [allDocs |-> <<>>, put |-> <<>>, docs |-> [i \in 1..Len(docs) |-> 0]]
    /\ hist = <<>>

\* The objects of a run of mutateAllDocs: nothing else has been called.
InitObjects ==
    /\ InitStreams
    /\ replication = NotCalled
    /\ views = NotCalled

\* A run during which the database may fail MaxFaults times.
InitRun == faults = 0 /\ InitObjects

Init ==
    /\ \/ docs \in SmallCollections /\ options \in Options
       \/ docs \in LongCollections /\ options = LongOptions
    /\ InitRun

(***************************************************************************)
(* The actions: one callback of the event loop each.                       *)
(***************************************************************************)
Commit(w) ==
    /\ source' = w.source
    /\ transform' = w.transform
    /\ target' = w.target
    /\ pump' = w.pump
    /\ promise' = w.promise
    /\ stats' = w.stats
    /\ loop' = w.loop
    /\ db' = w.db
    /\ hist' = w.hist
    /\ UNCHANGED <<docs, options, replication, views>>

\* The nextTick queue runs until it is empty, then the microtask queue until
\* it is empty, and so on; an I/O callback runs when both are empty.
TickReady(name) ==
    /\ loop.ticks # <<>>
    /\ Head(loop.ticks) = name
    /\ loop.phase = "tick" \/ loop.micro = <<>>

MicroReady(name) ==
    /\ loop.micro # <<>>
    /\ Head(loop.micro).task = name
    /\ loop.phase = "micro" \/ loop.ticks = <<>>

Quiet == loop.ticks = <<>> /\ loop.micro = <<>>

PopTick == [World EXCEPT !.loop.ticks = Tail(@), !.loop.phase = "tick"]

PopMicro == [World EXCEPT !.loop.micro = Tail(@), !.loop.phase = "micro"]

InMicro(w) == [w EXCEPT !.loop.phase = "micro"]

Remove(seq, i) == SubSeq(seq, 1, i - 1) \o SubSeq(seq, i + 1, Len(seq))

\* A run that could be started again whatever had become of it.
MutateAllDocsAgain ==
    /\ Commit([World EXCEPT !.promise.state = "pending",
                            !.stats = [total |-> 0, ignored |-> 0, written |-> 0],
                            !.source.piped = TRUE, !.source.flowing = TRUE,
                            !.transform.piped = TRUE, !.transform.flowing = TRUE,
                            !.loop.ticks = <<"resume_source", "resume_transform">>])
    /\ UNCHANGED faults

\* mutateAllDocs(options): the promise's executor builds the three streams
\* and pipes them; each pipe resumes its readable on the next tick.
MutateAllDocs ==
    /\ promise.state = "idle"
    /\ Commit([World EXCEPT !.promise.state = "pending",
                            !.stats = [total |-> 0, ignored |-> 0, written |-> 0],
                            !.source.piped = TRUE, !.source.flowing = TRUE,
                            !.transform.piped = TRUE, !.transform.flowing = TRUE,
                            !.loop.ticks = <<"resume_source", "resume_transform">>])
    /\ UNCHANGED faults

TickResumeSource ==
    /\ TickReady("resume_source")
    /\ Commit(sourceResume(PopTick))
    /\ UNCHANGED faults

TickResumeTransform ==
    /\ TickReady("resume_transform")
    /\ Commit(transformResume(PopTick))
    /\ UNCHANGED faults

TickMaybeReadMore ==
    /\ TickReady("maybeReadMore")
    /\ Commit(maybeReadMore_(PopTick))
    /\ UNCHANGED faults

TickSelfRead ==
    /\ TickReady("selfRead")
    /\ Commit(selfRead(PopTick))
    /\ UNCHANGED faults

TickEndSource ==
    /\ TickReady("endReadable_source")
    /\ Commit(sourceEndReadableNT(PopTick))
    /\ UNCHANGED faults

TickEndTransform ==
    /\ TickReady("endReadable_transform")
    /\ Commit(transformEndReadableNT(PopTick))
    /\ UNCHANGED faults

TickClose ==
    /\ \E s \in {"source", "transform", "target"} :
          /\ TickReady("close_" \o s)
          /\ Commit(emitClose(PopTick, s))
    /\ UNCHANGED faults

\* The microtask of _read: this._db.allDocs(opts).
AllDocsCall ==
    /\ MicroReady("allDocs")
    /\ LET opts == Head(loop.micro).opts
       IN Commit(Log([PopMicro EXCEPT !.db.allDocs = Append(@, opts)],
                     Event("allDocs", opts.startkey, opts.skip, opts.limit, 0, "")))
    /\ UNCHANGED faults

\* The microtasks of the transform function's promise chain.
TransformChunk ==
    /\ MicroReady("transform")
    /\ Commit(transformFunction(PopMicro))
    /\ UNCHANGED faults

\* db.allDocs answers with a page.
AllDocsResolve ==
    /\ Quiet
    /\ \E i \in DOMAIN db.allDocs :
          Commit(onAllDocs(InMicro([World EXCEPT !.db.allDocs = Remove(@, i)]),
                           db.allDocs[i]))
    /\ UNCHANGED faults

\* db.allDocs answers with an error.
AllDocsReject ==
    /\ Quiet
    /\ faults < MaxFaults
    /\ \E i \in DOMAIN db.allDocs :
          Commit(onAllDocsError(
                     Log(InMicro([World EXCEPT !.db.allDocs = Remove(@, i)]),
                         Event("allDocs failed", faults + 1, 0, 0, 0, "")),
                     [type |-> "allDocs failed", id |-> faults + 1]))
    /\ faults' = faults + 1

\* db.put answers: the document is stored.
PutSuccess ==
    /\ Quiet
    /\ \E i \in DOMAIN db.put :
          Commit(onPut(InMicro([World EXCEPT !.db.put = Remove(@, i),
                                             !.db.docs[db.put[i].id] = db.put[i].v]),
                       NoError))
    /\ UNCHANGED faults

\* db.put answers with an error (a conflict or any other).
PutFailure ==
    /\ Quiet
    /\ faults < MaxFaults
    /\ \E i \in DOMAIN db.put :
          Commit(onPut(Log(InMicro([World EXCEPT !.db.put = Remove(@, i)]),
                           Event("put failed", db.put[i].id, 0, 0, 0, "")),
                       [type |-> "put failed", id |-> db.put[i].id]))
    /\ faults' = faults + 1

Next ==
    \/ MutateAllDocs
    \/ TickResumeSource
    \/ TickResumeTransform
    \/ TickMaybeReadMore
    \/ TickSelfRead
    \/ TickEndSource
    \/ TickEndTransform
    \/ TickClose
    \/ AllDocsCall
    \/ TransformChunk
    \/ AllDocsResolve
    \/ AllDocsReject
    \/ PutSuccess
    \/ PutFailure

Spec == Init /\ [][Next]_vars

(***************************************************************************)
(* What the history says.                                                  *)
(***************************************************************************)
\* The places of the history where event e happened to document i.
At(e, i) == {k \in DOMAIN hist : hist[k].e = e /\ hist[k].id = i}

\* The places of the history where event e happened.
Places(e) == {k \in DOMAIN hist : hist[k].e = e}

\* The greatest place of a set of places (0 when there is none).
LastOf(ks) == IF ks = {} THEN 0 ELSE CHOOSE k \in ks : \A j \in ks : j <= k

\* The last place up to k where one of the events of E happened (0 when
\* there is none).
LastEvent(E, k) ==
    LET last[j \in 0..k] ==
            IF j = 0 THEN 0
            ELSE IF hist[j].e \in E THEN j
            ELSE last[j - 1]
    IN last[k]

\* The last place up to k where a _read issued a fetch (0 when there is
\* none).
LastFetch(k) ==
    LET last[j \in 0..k] ==
            IF j = 0 THEN 0
            ELSE IF hist[j].e = "_read" /\ hist[j].x = "fetch" THEN j
            ELSE last[j - 1]
    IN last[k]

\* Document i as the collection holds it before the run.
Stored(i) == [id |-> i, v |-> 0, ord |-> 0]

\* The mutator changes the canonical serialization of document i.
Changes(i) == jsonStableStringify(mutator(Stored(i))) # jsonStableStringify(Stored(i))

\* Document i is one the run has to write.
Kept(i) == ~docs[i].design /\ Changes(i)

\* What the read stream pushed, in order, and the fetches it made, in order.
Pushed == SelectSeq(hist, LAMBDA ev : ev.e = "push")

Fetches == SelectSeq(hist, LAMBDA ev : ev.e = "allDocs")

Settled == promise.state \in {"resolved", "rejected"}

\* Nothing is queued and no database call is unanswered: the run is over.
Finished == Quiet /\ db.allDocs = <<>> /\ db.put = <<>> /\ promise.state # "idle"

(***************************************************************************)
(* C1: after a run that resolved, db.put was called exactly once for every *)
(* document that is no design document and that the mutator changes, with  *)
(* a body whose canonical serialization is that of the mutated document,   *)
(* and never for any other document.                                       *)
(***************************************************************************)
C1_PutOnceIffChanged ==
    promise.state = "resolved" =>
        \A i \in DOMAIN docs :
            IF Kept(i)
            THEN /\ Cardinality(At("put", i)) = 1
                 /\ \A k \in At("put", i) :
                        <<hist[k].id, hist[k].a>> = jsonStableStringify(mutator(Stored(i)))
            ELSE At("put", i) = {}

\* A run over more than a page resolved, having written its first document
\* and left the design document at the end alone.
C1_Witness ==
    /\ promise.state = "resolved"
    /\ Len(docs) > HighWaterMark
    /\ Kept(1) /\ At("put", 1) # {}
    /\ docs[Len(docs)].design

(***************************************************************************)
(* C2: the read stream pushes the documents of the collection in ascending *)
(* key order, each once, and then the end of the stream once; whatever it  *)
(* has pushed so far is a prefix of that sequence, and a run that resolved *)
(* has pushed all of it.                                                   *)
(***************************************************************************)
C2_PushesEachOnceInOrder ==
    LET p == Pushed
    IN /\ Len(p) <= Len(docs) + 1
       /\ \A k \in DOMAIN p :
             IF k <= Len(docs)
             THEN p[k].id = k /\ p[k].x = ""
             ELSE p[k].id = null /\ p[k].x = "null"
       /\ promise.state = "resolved" => Len(p) = Len(docs) + 1

\* A run over two pages has pushed the end of the stream.
C2_Witness ==
    /\ Len(docs) > HighWaterMark
    /\ Len(Pushed) = Len(docs) + 1
    /\ Len(Fetches) = 3

(***************************************************************************)
(* The pagination scenario: 25 documents.                                  *)
(***************************************************************************)
InitC3 ==
    /\ docs \in {[i \in 1..25 |-> Plain(m)] : m \in {"idem", "same"}}
    /\ options \in {o \in Options : o.validator = o.verifyIdempotent /\
                                      o.validator = o.eventEmitter}
    /\ InitRun

SpecC3 == InitC3 /\ [][Next]_vars

\* The start positions of the fetches, in order.
StartKeys == [k \in DOMAIN Fetches |-> Fetches[k].id]

(***************************************************************************)
(* C3, as the code has it: over 25 documents a complete run makes exactly  *)
(* 3 fetches, the first from null with limit 16 (the size the stream is    *)
(* asked for), the second after document 16, and the third after document  *)
(* 25, which answers with the empty page that ends the stream.             *)
(***************************************************************************)
C3_ThreeFetchesSixteenFirst ==
    promise.state = "resolved" =>
        /\ StartKeys = <<null, 16, 25>>
        /\ Fetches[1].b = HighWaterMark
        /\ Fetches[1].a = 0 /\ Fetches[2].a = 1 /\ Fetches[3].a = 1

\* C3 as stated: exactly 3 fetches, from null, after document 10 and after
\* document 20.
C3_AsStated ==
    promise.state = "resolved" => StartKeys = <<null, 10, 20>>

\* A run over the 25 documents resolved.
C3_Witness ==
    /\ Len(docs) = 25
    /\ promise.state = "resolved"
    /\ Len(Fetches) = 3

(***************************************************************************)
(* C4: when the validator is called on a changed document and says no, the *)
(* run does not resolve and is rejected with the validation error of that  *)
(* document once it is over; the document is never given to db.put and is  *)
(* counted neither as ignored nor as written.                              *)
(***************************************************************************)
ValidatorSaidNo(i) ==
    /\ options.validator
    /\ ~validator(mutator(Stored(i)))
    /\ At("validator", i) # {}

C4_ValidationFailureRejects ==
    \A i \in DOMAIN docs :
        ValidatorSaidNo(i) =>
            /\ promise.state # "resolved"
            /\ Settled => promise.reason = [type |-> "Validation failed", id |-> i]
            /\ Finished => promise.state = "rejected"
            /\ At("put", i) = {}
            /\ At("ignored", i) = {} /\ At("document-write", i) = {}

\* The run was rejected for the last document of more than a page, after
\* earlier documents had been written.
C4_Witness ==
    /\ promise.state = "rejected"
    /\ promise.reason = [type |-> "Validation failed", id |-> Len(docs)]
    /\ Len(docs) > HighWaterMark
    /\ stats.written > 0

(***************************************************************************)
(* C5: with verifyIdempotent, when the second mutation of a changed        *)
(* document gives another serialization than the first, the run does not   *)
(* resolve and is rejected with the idempotency error of that document     *)
(* once it is over; the document is not written, and no document after it  *)
(* in key order is mutated, validated, written or counted.                 *)
(***************************************************************************)
SecondMutationDiffers(i) ==
    /\ options.verifyIdempotent
    /\ jsonStableStringify(mutator(mutator(Stored(i)))) #
           jsonStableStringify(mutator(Stored(i)))
    /\ Cardinality(At("mutator", i)) = 2

Untouched(j) ==
    \A e \in {"mutator", "validator", "put", "ignored", "document-write"} :
        At(e, j) = {}

C5_IdempotencyFailureHalts ==
    \A i \in DOMAIN docs :
        SecondMutationDiffers(i) =>
            /\ promise.state # "resolved"
            /\ Settled => promise.reason = [type |-> "Idempotency check failed", id |-> i]
            /\ Finished => promise.state = "rejected"
            /\ At("put", i) = {} /\ At("document-write", i) = {}
            /\ At("ignored", i) = {}
            /\ \A j \in DOMAIN docs : j > i => Untouched(j)

\* The run was rejected for the first of two documents.
C5_Witness ==
    /\ promise.state = "rejected"
    /\ promise.reason = [type |-> "Idempotency check failed", id |-> 1]
    /\ Len(docs) = 2
    /\ Finished

(***************************************************************************)
(* C6: once the run has rejected, no db.allDocs and no db.put is started.  *)
(***************************************************************************)
C6_NoCallAfterReject ==
    \A k \in Places("reject") :
        \A l \in DOMAIN hist :
            l > k => hist[l].e \notin {"allDocs", "put"}

\* The part of C6 about writes alone: no db.put is started after the reject.
C6_NoPutAfterReject ==
    \A k \in Places("reject") :
        \A l \in DOMAIN hist : l > k => hist[l].e # "put"

(***************************************************************************)
(* C7: a run that is rejected is rejected with the error that was raised   *)
(* first, whatever errors are raised after it.                             *)
(***************************************************************************)
\* The errors the stages raised, in the order they were raised.
Raised == SelectSeq(hist, LAMBDA ev : ev.e = "error")

C7_RejectsWithFirstError ==
    promise.state = "rejected" =>
        LET first == Head(Raised)
        IN /\ Raised # <<>>
           /\ promise.reason = [type |-> first.x, id |-> first.id]

\* The run was rejected and a second, different error was raised.
C7_Witness ==
    /\ promise.state = "rejected"
    /\ Len(Raised) >= 2
    /\ Raised[2].x # Raised[1].x

(***************************************************************************)
(* C8: when the promise is resolved the read stream has reached the end of *)
(* the collection, every document has been counted as written or ignored,  *)
(* the db.put of every kept document has succeeded, and no db.put and no   *)
(* db.allDocs is unanswered.                                               *)
(***************************************************************************)
C8_ResolvedMeansDrained ==
    promise.state = "resolved" =>
        /\ source.ended /\ source.endEmitted
        /\ Len(Pushed) = Len(docs) + 1
        /\ stats.written + stats.ignored = Len(docs)
        /\ \A i \in DOMAIN docs :
              /\ Cardinality(At("ignored", i) \cup At("document-write", i)) = 1
              /\ Kept(i) => /\ At("document-write", i) # {}
                            /\ At("put failed", i) = {}
                            /\ db.docs[i] = mutator(Stored(i)).v
        /\ db.put = <<>>
        /\ db.allDocs = <<>>
        /\ target.writing = NoChunk /\ target.wbuffer = <<>>

\* A run over more than a page resolved with documents written and ignored.
C8_Witness ==
    /\ promise.state = "resolved"
    /\ Len(docs) > HighWaterMark
    /\ stats.written >= HighWaterMark
    /\ stats.ignored > 0

CallbackDue == loop.ticks # <<>> \/ loop.micro # <<>>

AllDocsDue == Quiet /\ db.allDocs # <<>>

PutDue == Quiet /\ db.put # <<>>

\* A step of the loop from a state where a callback is due runs a callback.
CallbackStep == CallbackDue

\* An answer to db.allDocs takes the call out of those in flight; the page
\* handler starts no call itself (the next one starts from a microtask).
AllDocsAnswer == AllDocsDue /\ Len(db.allDocs') < Len(db.allDocs)

\* An answer to db.put takes the call out of those in flight, whether or not
\* the write stream then starts the next one.
PutAnswer == PutDue /\ db.put' # db.put

FairSpec ==
    /\ Spec
    /\ WF_vars(MutateAllDocs)
    /\ ([]<>~CallbackDue \/ []<><<CallbackStep>>_vars)
    /\ ([]<>~AllDocsDue \/ []<><<AllDocsAnswer>>_vars)
    /\ ([]<>~PutDue \/ []<><<PutAnswer>>_vars)

(***************************************************************************)
(* C10: when every database call is answered, a run that has started is    *)
(* resolved or rejected in the end.                                        *)
(***************************************************************************)
C10_RunSettles == (promise.state = "pending") ~> Settled

\* A run over more than a page, slowed by a full write buffer, has settled.
C10_Witness ==
    /\ Settled
    /\ Len(docs) > HighWaterMark
    /\ Len(Fetches) = 3
    /\ stats.written >= HighWaterMark

(***************************************************************************)
(* The fairness above is that of the actions: a step from a state where a  *)
(* callback is due is no answer of the database, every answer to           *)
(* db.allDocs is an AllDocsAnswer step and every answer to db.put a        *)
(* PutAnswer step, and neither is the other.                               *)
(***************************************************************************)
FairnessIsOfTheActions ==
    [][/\ CallbackDue =>
              ~(AllDocsResolve \/ AllDocsReject \/ PutSuccess \/ PutFailure)
       /\ (AllDocsResolve \/ AllDocsReject) => AllDocsAnswer
       /\ (PutSuccess \/ PutFailure) => PutAnswer
       /\ AllDocsAnswer => ~(PutSuccess \/ PutFailure)
       /\ PutAnswer => ~(AllDocsResolve \/ AllDocsReject)]_vars

(***************************************************************************)
(* C11: stats.written, stats.ignored and their sum never decrease, and     *)
(* when the promise becomes resolved stats.total is their sum.             *)
(***************************************************************************)
C11_CountersGrowAndAddUp ==
    [][/\ stats'.written >= stats.written
       /\ stats'.ignored >= stats.ignored
       /\ stats'.written + stats'.ignored >= stats.written + stats.ignored
       /\ promise'.state = "resolved" =>
              stats'.total = stats'.written + stats'.ignored]_vars

\* A run over more than a page resolved with documents of both counts.
C11_Witness ==
    /\ promise.state = "resolved"
    /\ Len(docs) > HighWaterMark
    /\ stats.written > 0 /\ stats.ignored > 0
    /\ stats.total = Len(docs)

(***************************************************************************)
(* C12: with an eventEmitter, a call of reportProgress (one follows every  *)
(* count of a document as ignored or written) emits "progress" exactly     *)
(* when processed = stats.total or processed mod reportFrequency = 0, the  *)
(* frequency being 1 when none is given; without an emitter nothing is     *)
(* emitted, and no "progress" is emitted but by such a call.  A step       *)
(* counts at most one document, so the call to look at in a state is the   *)
(* last one: every earlier call is the last one of an earlier state.       *)
(***************************************************************************)
Counted(k) == hist[k].e \in {"ignored", "document-write"}

CountedPlaces == {k \in DOMAIN hist : Counted(k)}

\* The place of the last count of a document (0 when there is none).
LastCounted == LastEvent({"ignored", "document-write"}, Len(hist))

\* How many documents had been counted when event k had happened.
ProcessedAt(k) == Cardinality({j \in 1..k : Counted(j)})

Frequency == IF options.reportFrequency = 0 THEN 1 ELSE options.reportFrequency

ReportedAfter(k) == k < Len(hist) /\ hist[k + 1].e = "progress"

C12_ReportIffDue ==
    /\ LET k == LastCounted
       IN k > 0 =>
              (ReportedAfter(k) <=>
                  /\ options.eventEmitter
                  /\ \/ ProcessedAt(k) = Len(docs)
                     \/ ProcessedAt(k) % Frequency = 0)
    /\ \A k \in Places("progress") : k > 1 /\ Counted(k - 1)

\* With frequency 2 and an odd number of documents, a report was skipped,
\* one was emitted at an even count and the last one at processed = total.
C12_Witness ==
    /\ options.eventEmitter /\ options.reportFrequency = 2
    /\ Len(docs) > HighWaterMark /\ Len(docs) % 2 = 1
    /\ promise.state = "resolved"
    /\ \E k \in DOMAIN hist : Counted(k) /\ ~ReportedAfter(k)
    /\ \E k \in DOMAIN hist : Counted(k) /\ ReportedAfter(k) /\ ProcessedAt(k) = 2
    /\ \E k \in DOMAIN hist :
          Counted(k) /\ ReportedAfter(k) /\ ProcessedAt(k) = Len(docs)

(***************************************************************************)
(* C13: a run that resolves with an eventEmitter emits, before the promise *)
(* resolves, a final progress report with processed = total, for any       *)
(* reportFrequency, when the collection holds at least one document; for   *)
(* the empty collection reportProgress is never called and no "progress"   *)
(* event is emitted at all.                                                *)
(***************************************************************************)
\* A report with processed = total = n was emitted before the promise resolved.
FinalReport(n) ==
    \E k \in Places("progress") :
        /\ hist[k].id = n /\ hist[k].a = n
        /\ \A r \in Places("resolve") : k < r

C13_FinalReportUnlessEmpty ==
    (promise.state = "resolved" /\ options.eventEmitter) =>
        IF Len(docs) = 0 THEN Places("progress") = {}
        ELSE FinalReport(Len(docs))

\* The statement for every collection size, the empty collection included.
C13_AsStated ==
    (promise.state = "resolved" /\ options.eventEmitter) =>
        FinalReport(stats.total)

\* A resolved run over an odd number of documents with frequency 2: the last
\* report is due to processed = total alone.
C13_Witness ==
    /\ promise.state = "resolved" /\ options.eventEmitter
    /\ options.reportFrequency = 2 /\ Len(docs) % 2 = 1
    /\ FinalReport(Len(docs))

\* A resolved run over the empty collection with an eventEmitter.
C13_EmptyWitness ==
    /\ promise.state = "resolved" /\ options.eventEmitter
    /\ Len(docs) = 0 /\ stats.total = 0

(***************************************************************************)
(* C14: with an eventEmitter and a report frequency of 1 (given, or by     *)
(* default), every document counted as written or ignored yields exactly   *)
(* one "progress" event: in every state of a run the number of "progress"  *)
(* events emitted so far is stats.written + stats.ignored, and each count  *)
(* is followed at once by its report.                                      *)
(***************************************************************************)
C14_OneReportPerDocument ==
    (options.eventEmitter /\ Frequency = 1) =>
        /\ Cardinality(Places("progress")) = stats.written + stats.ignored
        /\ LastCounted > 0 => ReportedAfter(LastCounted)

\* A run in progress with the frequency given as 1 that has reported one
\* written and one ignored document.
C14_Witness ==
    /\ options.eventEmitter /\ options.reportFrequency = 1
    /\ stats.written > 0 /\ stats.ignored > 0
    /\ Cardinality(Places("progress")) = 2
    /\ promise.state = "pending"

(***************************************************************************)
(* C15: every "progress" message reads                                     *)
(*     "{processed}/{total}, {written} written, {ignored} ignored"         *)
(* where written and ignored are the numbers of documents reported written *)
(* and skipped when the message is emitted, total is the size of the       *)
(* collection as the last page told it, and processed = written + ignored. *)
(***************************************************************************)
\* The numbers of 'document-write' and of skipped documents before place k.
WrittenBefore(k) == Cardinality({j \in 1..k : hist[j].e = "document-write"})

IgnoredBefore(k) == Cardinality({j \in 1..k : hist[j].e = "ignored"})

Form(processed, total, written, ignored) ==
    ToString(processed) \o "/" \o ToString(total) \o ", " \o
    ToString(written) \o " written, " \o ToString(ignored) \o " ignored"

\* The place of the last report (0 when there is none).
LastReport == LastEvent({"progress"}, Len(hist))

\* A step emits at most one report, so the report to look at in a state is
\* the last one: every earlier report is the last one of an earlier state.
C15_MessageForm ==
    LET k == LastReport
    IN k > 0 =>
           LET written == WrittenBefore(k)
               ignored == IgnoredBefore(k)
           IN /\ hist[k].x = Form(written + ignored, Len(docs), written, ignored)
              /\ hist[k].b = written /\ hist[k].c = ignored
              /\ hist[k].id = written + ignored
              /\ hist[k].a = Len(docs)

\* The last report of a run over 17 documents, 16 written and 1 skipped.
C15_Witness ==
    \E k \in Places("progress") : hist[k].x = "17/17, 16 written, 1 ignored"

(***************************************************************************)
(* C16: the stages overlap, in key order only.  While db.put of a document *)
(* is in flight the mutator is applied only to documents that follow it in *)
(* key order, and a page is fetched only from a start key at or after it;  *)
(* a document is never mutated, and its page never fetched, while db.put   *)
(* of a later document or of itself is in flight.  (The statement that     *)
(* nothing is mutated or fetched while a db.put of another document is in  *)
(* flight does not hold: the write stream takes the next documents while   *)
(* db.put is unanswered.)                                                  *)
(***************************************************************************)
\* The places of the events that a step adds to the history.
Added == (Len(hist) + 1)..Len(hist')

C16_OverlapInKeyOrder ==
    [][\A k \in Added :
          hist'[k].e \in {"mutator", "allDocs"} =>
              \A j \in DOMAIN db.put :
                  IF hist'[k].e = "mutator"
                  THEN db.put[j].id < hist'[k].id
                  ELSE db.put[j].id <= hist'[k].id]_vars

\* db.put of the document of place p had been answered before place k.
Answered(p, k) ==
    \E a \in (p + 1)..(k - 1) :
        /\ hist[a].e \in {"document-write", "put failed"}
        /\ hist[a].id = hist[p].id

\* The statement as it stands: no mutation of another document and no fetch
\* while a db.put is in flight.
C16_AsStated ==
    \A k \in Places("mutator") \cup Places("allDocs") :
        \A p \in Places("put") :
            (p < k /\ ~Answered(p, k)) =>
                hist[k].e = "mutator" /\ hist[p].id = hist[k].id

\* db.put of a document is in flight, and since it started the mutator was
\* applied to a later document and a page was fetched.
C16_Witness ==
    /\ db.put # <<>>
    /\ \E p \in At("put", db.put[1].id) :
          /\ \E k \in Places("mutator") : k > p /\ hist[k].id > hist[p].id
          /\ \E k \in Places("allDocs") : k > p /\ hist[k].id >= hist[p].id

(***************************************************************************)
(* C17: the read stream never has more than one db.allDocs call in flight  *)
(* (called, or about to be called from the promise chain of _read); while  *)
(* one is in flight the guard this.reading is set; a _read called while a  *)
(* fetch is outstanding issues no fetch; and every fetch that is issued is *)
(* issued by a _read that found the guard free.                            *)
(***************************************************************************)
\* The fetches in flight: db.allDocs called and unanswered, or still to be
\* called by the first .then of _read.
FetchesInFlight ==
    Len(db.allDocs) +
    Cardinality({j \in DOMAIN loop.micro : loop.micro[j].task = "allDocs"})

\* db.allDocs answered at place k of the history.
FetchAnswer(k) ==
    \/ hist[k].e = "page"
    \/ hist[k].e = "error" /\ hist[k].x = "allDocs failed"

\* A fetch was outstanding when the _read of place k was called.
Outstanding(k) ==
    LET f == LastFetch(k - 1)
    IN f # 0 /\ LastEvent({"page", "allDocs failed"}, k - 1) < f

IssuedFetches == {k \in Places("_read") : hist[k].x = "fetch"}

C17_OneFetchInFlight ==
    /\ FetchesInFlight <= 1
    /\ FetchesInFlight = 1 => source.reading
    /\ LET k == LastEvent({"_read"}, Len(hist))
       IN k # 0 => (Outstanding(k) <=> hist[k].x = "busy")
    /\ Cardinality(IssuedFetches) = Len(Fetches) + (FetchesInFlight - Len(db.allDocs))

\* A fetch is in flight and a _read that was called meanwhile issued none.
C17_Witness ==
    /\ Len(db.allDocs) = 1 /\ source.reading
    /\ \E k \in Places("_read") : Outstanding(k) /\ hist[k].x = "busy"

(***************************************************************************)
(* C18: the write stream has at most one db.put in flight, and db.put of a *)
(* kept document starts only after the 'document-write' of the kept        *)
(* document before it: when it starts, stats.written has been incremented  *)
(* for every earlier db.put, and the progress report of the earlier write  *)
(* (where one is due) has been emitted.  A step starts at most one db.put, *)
(* so the pair to look at in a state is the last two calls of db.put.      *)
(***************************************************************************)
\* The place of the last db.put (0 when there is none), and of the one before.
LastPut == LastEvent({"put"}, Len(hist))

PutBefore(p) == IF p = 0 THEN 0 ELSE LastEvent({"put"}, p - 1)

\* The report of the 'document-write' at place a is due.
ReportDue(a) ==
    /\ options.eventEmitter
    /\ ProcessedAt(a) = Len(docs) \/ ProcessedAt(a) % Frequency = 0

C18_OnePutInFlight ==
    /\ Len(db.put) <= 1
    /\ LET later == LastPut
           earlier == PutBefore(later)
       IN earlier > 0 =>
              /\ hist[earlier].id < hist[later].id
              /\ \E a \in (earlier + 1)..(later - 1) :
                    /\ hist[a].e = "document-write"
                    /\ hist[a].id = hist[earlier].id
                    /\ ReportDue(a) => a + 1 < later /\ hist[a + 1].e = "progress"
              /\ WrittenBefore(later) = Cardinality({k \in Places("put") : k < later})

\* Two documents were put one after the other, the second from the buffer
\* of the write stream, and the write of the first was reported in between.
C18_Witness ==
    /\ options.eventEmitter /\ Len(db.put) = 1
    /\ Cardinality(Places("put")) = 2 /\ Places("progress") # {}
    /\ \E k \in Places("mutator"), a \in Places("document-write") :
          /\ k < a
          /\ hist[k].id = hist[LastPut].id
          /\ hist[a].id = hist[PutBefore(LastPut)].id

(***************************************************************************)
(* The back-pressure scenario: a collection of as many documents as the    *)
(* four buffers of the pipeline hold (the read stream, the two sides of    *)
(* the transform, the write stream: highWaterMark each).  The mutator      *)
(* changes the first half of them, which fill the write stream and the     *)
(* readable side of the transform while the first db.put is unanswered;    *)
(* the second half has to wait behind them.                                *)
(***************************************************************************)
ManyDocs == 4 * HighWaterMark

\* The long run is one the database answers without an error; a run over
\* two documents covers the answers that are errors.
InitC19 ==
    /\ \/ /\ docs = [i \in 1..ManyDocs |->
                        IF i <= 2 * HighWaterMark THEN Plain("idem")
                        ELSE Plain("same")]
          /\ faults = MaxFaults
       \/ /\ docs = [i \in 1..2 |-> Plain("idem")]
          /\ faults = 0
    /\ options = [validator |-> FALSE, verifyIdempotent |-> FALSE,
                  eventEmitter |-> FALSE, reportFrequency |-> 0]
    /\ InitObjects

SpecC19 == InitC19 /\ [][Next]_vars

\* The documents the read stream has pushed and the transform function has
\* not been given yet: those in the buffer of the read stream and those the
\* writable side of the transform holds.
Unconsumed == Len(source.buffer) + WLen(transform)

(***************************************************************************)
(* C19: the read stream fetches a page only on demand: every fetch is      *)
(* issued by a call of _read, made by the stream framework or by the       *)
(* nextTick the stream schedules when the last push of a page returned     *)
(* true.  At the stream's own call the buffer of the read stream holds     *)
(* fewer than highWaterMark documents; at the framework's call it holds    *)
(* fewer once the read that makes the call has taken its document.  So the *)
(* documents fetched and not yet given to the transform function never     *)
(* number more than twice the highWaterMark, a bound the collection size   *)
(* has no part in.                                                         *)
(***************************************************************************)
\* The place of the last _read that issued a fetch (0 when there is none).
LastIssue == LastFetch(Len(hist))

\* A step issues at most one fetch, so the fetch to look at in a state is
\* the last one: every earlier fetch is the last one of an earlier state.
C19_FetchOnDemandBounded ==
    /\ Unconsumed <= 2 * HighWaterMark
    /\ LET k == LastIssue
       IN k > 0 =>
              /\ hist[k].id \in {HighWaterMark, SelfReadSize}
              /\ hist[k].id = SelfReadSize => hist[k].a < HighWaterMark
              /\ hist[k].id = HighWaterMark => hist[k].a <= HighWaterMark

\* The bound is reached: a page waits in the buffer of the read stream and
\* another in the transform, behind the documents the write stream holds;
\* the read stream has not seen the end and has no fetch in flight.
C19_Witness ==
    /\ Unconsumed = 2 * HighWaterMark
    /\ Len(source.buffer) = HighWaterMark
    /\ Len(docs) > 2 * HighWaterMark
    /\ FetchesInFlight = 0 /\ ~source.reading /\ ~source.ended
    /\ Len(db.put) = 1 /\ promise.state = "pending"

(***************************************************************************)
(* The design document scenario: collections of three documents, each a    *)
(* design document or a document the mutator changes, {a, _design/x, b}    *)
(* with the design document at any place among them.                       *)
(***************************************************************************)
DesignDoc == [design |-> TRUE, mut |-> "nonidem", valid |-> FALSE]

InitC20 ==
    /\ docs \in [1..3 -> {DesignDoc, Plain("idem")}]
    /\ options \in Options
    /\ InitRun

SpecC20 == InitC20 /\ [][Next]_vars

(***************************************************************************)
(* C20: a design document is never given to the mutator, to the validator  *)
(* or to db.put, and it is counted as ignored once (at most once while the *)
(* run goes on, exactly once when it has resolved); a run that resolved    *)
(* over two documents the mutator changes and one design document ends     *)
(* with stats total 3, written 2, ignored 1.                               *)
(***************************************************************************)
DesignDocs == {i \in DOMAIN docs : docs[i].design}

C20_DesignDocsIgnored ==
    /\ \A i \in DesignDocs :
          /\ At("mutator", i) = {} /\ At("validator", i) = {} /\ At("put", i) = {}
          /\ Cardinality(At("ignored", i)) <= 1
          /\ promise.state = "resolved" => Cardinality(At("ignored", i)) = 1
    /\ stats.ignored = Cardinality(Places("ignored"))
    /\ (promise.state = "resolved" /\ Cardinality(DesignDocs) = 1) =>
           stats = [total |-> 3, written |-> 2, ignored |-> 1]

\* {a, _design/x, b} with validator and idempotency check: the run resolved
\* and the design document in the middle was counted.
C20_Witness ==
    /\ promise.state = "resolved"
    /\ DesignDocs = {2}
    /\ options.validator /\ options.verifyIdempotent
    /\ At("ignored", 2) # {} /\ At("put", 1) # {} /\ At("put", 3) # {}
    /\ stats = [total |-> 3, written |-> 2, ignored |-> 1]

(***************************************************************************)
(* C21: a document (no design document) whose canonical serialization the  *)
(* mutator leaves unchanged is never given to the validator or to db.put   *)
(* and is counted as ignored once (at most once while the run goes on,     *)
(* exactly once when it has resolved).  When the mutator changes no        *)
(* document of the collection, the run calls db.put never, keeps           *)
(* written = 0, ends, unless the database fails, resolved, and has then    *)
(* ignored = total = the size of the collection.  A step gives one         *)
(* document to the validator and db.put and counts one, so the document to *)
(* look at in a state is the one of the last such event: every earlier one *)
(* is the last one of an earlier state; documents are counted as ignored   *)
(* in key order, each later than the one before, so none twice.            *)
(***************************************************************************)
UnchangedDocs == {i \in DOMAIN docs : ~docs[i].design /\ ~Changes(i)}

C21_UnchangedIgnored ==
    /\ LET k == LastEvent({"validator", "put"}, Len(hist))
       IN k # 0 => docs[hist[k].id].design \/ Changes(hist[k].id)
    /\ LET ks == Places("ignored")
           k == LastOf(ks)
           before == LastOf(ks \ {k})
       IN (k # 0 /\ before # 0) => hist[before].id < hist[k].id
    /\ promise.state = "resolved" =>
           \A i \in UnchangedDocs : At("ignored", i) # {}
    /\ \/ /\ LastPut = 0 /\ stats.written = 0
          /\ (Finished /\ faults = 0) => promise.state = "resolved"
          /\ promise.state = "resolved" =>
                 stats.ignored = Len(docs) /\ stats.total = Len(docs)
       \/ \E i \in DOMAIN docs : Changes(i)

\* A run over more than a page of documents the mutator leaves alone, with
\* a validator given, has resolved.
C21_Witness ==
    /\ promise.state = "resolved" /\ options.validator
    /\ Len(docs) > HighWaterMark
    /\ UnchangedDocs = DOMAIN docs
    /\ stats = [total |-> Len(docs), written |-> 0, ignored |-> Len(docs)]

(***************************************************************************)
(* C22: when the validator refuses every document, nothing is fetched and  *)
(* nothing after the refused document is written once the validation has   *)
(* failed: after the "Validation failed" error no db.allDocs is called and *)
(* no db.put of a later document starts.                                   *)
(***************************************************************************)
\* The validator, were it called, would return false for every document.
ValidatorRefusesAll == options.validator /\ \A i \in DOMAIN docs : ~docs[i].valid

ValidationFailures == {k \in Places("error") : hist[k].x = "Validation failed"}

C22_NothingAfterValidationFailure ==
    ValidatorRefusesAll =>
        \A k \in ValidationFailures :
            \A j \in (k + 1)..Len(hist) :
                /\ hist[j].e # "allDocs"
                /\ hist[j].e = "put" => hist[j].id <= hist[k].id

(***************************************************************************)
(* C23: when db.put has failed for a document, db.put is not called again  *)
(* for it, no 'document-write' is emitted and stats.written is not         *)
(* incremented for it, the promise is never resolved, and the run ends     *)
(* rejected: with the error of db.put when no error was raised before it,  *)
(* with the earlier error otherwise.  The documents written before stay    *)
(* written.                                                                *)
(***************************************************************************)
FailedPuts == Places("put failed")

\* The error db.put answered at place k is the first error of the run.
FirstRaised(k) == \A j \in 1..k : hist[j].e # "error"

\* What the collection holds is what the successful writes put there: as
\* many documents differ from what was stored as were written, and the
\* document written last holds what was put.
WritesStay ==
    /\ Cardinality({i \in DOMAIN docs : db.docs[i] # Stored(i).v}) =
           Cardinality(Places("document-write"))
    /\ LET k == LastEvent({"document-write"}, Len(hist))
           p == PutBefore(k)
       IN k # 0 =>
              /\ p # 0 /\ hist[p].id = hist[k].id
              /\ db.docs[hist[k].id] = hist[p].a
              /\ hist[p].a # Stored(hist[k].id).v

C23_FailedPutRejects ==
    (faults > 0 /\ FailedPuts # {}) =>
        /\ \A k \in FailedPuts :
              LET i == hist[k].id
              IN /\ Cardinality(At("put", i)) = 1
                 /\ At("document-write", i) = {}
                 /\ promise.state # "resolved"
                 /\ Finished => promise.state = "rejected"
                 /\ (promise.state = "rejected" /\ FirstRaised(k)) =>
                        promise.reason = [type |-> "put failed", id |-> i]
        /\ stats.written = Cardinality(Places("document-write"))
        /\ WritesStay

\* The statement without the proviso: the run rejects with the error of
\* db.put whenever db.put failed.
C23_AsStated ==
    \A k \in FailedPuts :
        promise.state = "rejected" =>
            promise.reason = [type |-> "put failed", id |-> hist[k].id]

\* db.put failed for the second document after the first was written; the
\* run is rejected with that error and the first document stays written.
C23_Witness ==
    /\ promise.state = "rejected" /\ Finished
    /\ promise.reason = [type |-> "put failed", id |-> 2]
    /\ At("put failed", 2) # {} /\ At("document-write", 1) # {}
    /\ db.docs[1] = 1 /\ db.docs[2] = 0
    /\ stats.written = 1

(***************************************************************************)
(* C24: when a db.allDocs fetch has failed, the read stream has emitted    *)
(* that error, and after it no document is pushed, no page is answered and *)
(* no fetch is issued or called for the rest of the run; the promise is    *)
(* never resolved and the run ends rejected: with the error of the fetch   *)
(* when no error was raised before it, with the earlier error otherwise.   *)
(***************************************************************************)
FailedFetches == Places("allDocs failed")

C24_FailedFetchRejects ==
    \A k \in FailedFetches :
        /\ k < Len(hist)
        /\ hist[k + 1] = Event("error", hist[k].id, 0, 0, 0, "allDocs failed")
        /\ \A j \in (k + 1)..Len(hist) :
              /\ hist[j].e \notin {"push", "page", "allDocs"}
              /\ hist[j].e = "_read" => hist[j].x = "busy"
        /\ FetchesInFlight = 0
        /\ promise.state # "resolved"
        /\ Finished => promise.state = "rejected"
        /\ (promise.state = "rejected" /\ FirstRaised(k)) =>
               promise.reason = [type |-> "allDocs failed", id |-> hist[k].id]

\* The statement without the proviso: the run rejects with the error of the
\* fetch whenever a fetch failed.
C24_AsStated ==
    \A k \in FailedFetches :
        promise.state = "rejected" =>
            promise.reason = [type |-> "allDocs failed", id |-> hist[k].id]

\* The fetch of the second page failed after the first page was pushed and
\* while documents of it were still to be written; the run is rejected with
\* the error of the fetch.
C24_Witness ==
    /\ promise.state = "rejected" /\ Finished
    /\ promise.reason.type = "allDocs failed"
    /\ \E k \in FailedFetches :
          /\ \E j \in 1..k : hist[j].e = "push"
          /\ \E j \in (k + 1)..Len(hist) : hist[j].e = "document-write"

(***************************************************************************)
(* C25: stats.total is assigned by every page response, the first and each *)
(* later one, the empty last page included, and each time with the         *)
(* document count reported with that page, the size of the collection: it  *)
(* is 0 until the first page is answered and the size of the collection    *)
(* from then on.  A step answers at most one page, so the page to look at  *)
(* in a state is the last one, and the last assignment is the one that     *)
(* follows it at once: there is one assignment for every page.             *)
(***************************************************************************)
Assignments == Places("total")

C25_TotalAssignedByEveryPage ==
    LET p == LastEvent({"page"}, Len(hist))
        t == LastEvent({"total"}, Len(hist))
    IN /\ p = 0 => t = 0
       /\ p # 0 => t = p + 1 /\ hist[t] = Event("total", Len(docs), 0, 0, 0, "")
       /\ stats.total = IF t = 0 THEN 0 ELSE Len(docs)

\* The statement as it stands: stats.total is assigned at most once in a run.
C25_AsStated == Cardinality(Assignments) <= 1

\* A resolved run over more than a frame of documents: stats.total was
\* assigned by the first page, by a later page with documents and by the
\* empty last page.
C25_Witness ==
    /\ promise.state = "resolved"
    /\ Len(docs) > HighWaterMark
    /\ Cardinality(Assignments) >= 3
    /\ \E k \in Places("page") : hist[k].id = 0
    /\ stats.total = Len(docs)

(***************************************************************************)
(* C26: the position _key of the read stream is null until a page with     *)
(* documents is answered and from then on the id of the last document of   *)
(* the latest such page, which is after the position the page was fetched  *)
(* from, so the position never moves backward; every fetch is made with    *)
(* startkey = the position at that time and skip 1, or skip 0 when the     *)
(* position is null, and the page answered to a fetch from null starts at  *)
(* the first document of the collection.                                   *)
(***************************************************************************)
\* The rows db.allDocs answered at place k of the history.
PageRows(k) ==
    allDocsRows([startkey |-> hist[k].a, skip |-> hist[k].b, limit |-> hist[k].c])

NonEmptyPages == {k \in Places("page") : hist[k].id > 0}

\* The position a page with documents leaves: the id of its last row.
KeyOf(p) == LET rows == PageRows(p) IN rows[Len(rows)]

\* A step answers at most one page and calls db.allDocs at most once, so
\* the page and the call to look at in a state are the last ones: every
\* earlier one is the last one of an earlier state.  The position before
\* the last page is the one the last page with documents before it left.
C26_CursorMovesForward ==
    LET pages == Places("page")
        k == LastOf(pages)
        earlier == LastOf({j \in pages : j < k /\ hist[j].id > 0})
        before == IF earlier = 0 THEN null ELSE KeyOf(earlier)
        call == LastOf(Places("allDocs"))
        rows == PageRows(k)
    IN /\ IF k = 0 THEN source._key = null
          ELSE /\ hist[k].a = before
               /\ hist[k].id = Len(rows)
               /\ hist[k].id = 0 => source._key = before
               /\ hist[k].id > 0 =>
                      /\ source._key = rows[Len(rows)]
                      /\ source._key > before
                      /\ rows[1] > before
                      /\ before = null => rows[1] = 1
       /\ call # 0 =>
              /\ hist[call].a = IF hist[call].id = null THEN 0 ELSE 1
              /\ IF call > k THEN hist[call].id = source._key
                 ELSE hist[call].id = hist[k].a /\ hist[call].a = hist[k].b

\* After two pages with documents and the empty last page: the position is
\* the id of the last document of the collection, and the second fetch was
\* made from the last document of the first page with skip 1.
C26_Witness ==
    /\ promise.state = "resolved"
    /\ Len(docs) > HighWaterMark
    /\ source._key = Len(docs)
    /\ Cardinality(NonEmptyPages) >= 2
    /\ \E k \in Places("allDocs") : hist[k].id = HighWaterMark /\ hist[k].a = 1
    /\ \E k \in Places("allDocs") : hist[k].id = null /\ hist[k].a = 0
    /\ \E k \in Places("page") : hist[k].id = 0 /\ hist[k].a = Len(docs)

(***************************************************************************)
(* C27: every page fetch asks for the document bodies and for as many      *)
(* documents as the size its _read was called with: the highWaterMark, 16, *)
(* when the stream framework called _read, and 10 when the read stream     *)
(* called it itself; a page holds at most that many documents.             *)
(***************************************************************************)
\* The options of the fetches that were issued and are not answered.
PendingFetches ==
    {db.allDocs[i] : i \in DOMAIN db.allDocs} \cup
    {loop.micro[j].opts : j \in {i \in DOMAIN loop.micro : loop.micro[i].task = "allDocs"}}

C27_LimitIsReadSize ==
    /\ \A o \in PendingFetches :
          /\ o.include_docs
          /\ LastIssue # 0
          /\ o.limit = hist[LastIssue].id
          /\ o.limit \in {SelfReadSize, HighWaterMark}
    /\ LET k == LastEvent({"allDocs"}, Len(hist))
       IN k # 0 => hist[k].b \in {SelfReadSize, HighWaterMark}
    /\ LET k == LastEvent({"page"}, Len(hist))
       IN k # 0 => hist[k].id <= hist[k].c

\* The statement as it stands: no fetch asks for more than 10 documents.
C27_AsStated == \A k \in Places("allDocs") : hist[k].b <= DefaultLimit

\* A fetch of 16 documents issued by a _read of the framework and a fetch of
\* 10 issued by the _read the stream called itself, the latter unanswered.
C27_Witness ==
    /\ \E k \in Places("allDocs") : hist[k].b = HighWaterMark
    /\ \E k \in Places("page") : hist[k].id = HighWaterMark
    /\ \E o \in PendingFetches : o.limit = SelfReadSize /\ o.include_docs
    /\ LastIssue # 0 /\ hist[LastIssue].id = SelfReadSize

(***************************************************************************)
(* C28: the step in which the mutation stage skips a document adds exactly *)
(* one to stats.ignored and calls reportProgress (which emits "progress"   *)
(* with the new counts when a report is due and an emitter is given) right *)
(* after the skip, before the stage applies the mutator to any other       *)
(* document; the step neither waits for nor touches the db.put in flight.  *)
(***************************************************************************)
C28_SkipCountsAndReports ==
    [][\A k \in Added :
          hist'[k].e = "ignored" =>
              /\ stats'.ignored = stats.ignored + 1
              /\ stats'.written = stats.written
              /\ db.put' = db.put
              /\ \A j \in Added :
                    /\ hist'[j].e \in {"ignored", "mutator", "validator"} =>
                           hist'[j].id = hist'[k].id
                    /\ hist'[j].e \in {"mutator", "validator"} => j < k
                    /\ hist'[j].e = "ignored" => j = k
              /\ LET processed == stats'.ignored + stats'.written
                     due == /\ options.eventEmitter
                            /\ \/ processed = stats'.total
                               \/ processed % Frequency = 0
                 IN IF due
                    THEN /\ k < Len(hist')
                         /\ hist'[k + 1].e = "progress"
                         /\ hist'[k + 1].id = processed
                         /\ hist'[k + 1].c = stats'.ignored
                    ELSE \A j \in Added : hist'[j].e # "progress"]_vars

\* A document was skipped, counted and reported while the db.put of an
\* earlier document was in flight.
C28_Witness ==
    /\ options.eventEmitter
    /\ db.put # <<>>
    /\ \E p \in At("put", db.put[1].id) :
          \E k \in Places("ignored") :
              /\ k > p /\ k < Len(hist)
              /\ hist[k].id > hist[p].id
              /\ hist[k + 1].e = "progress"
              /\ hist[k + 1].c = stats.ignored

(***************************************************************************)
(* C29: every document the transform function was called with has exactly  *)
(* one outcome out of three: it is passed to the writer (callback(null,    *)
(* chunk)), or dropped and counted in stats.ignored (callback(null)), or   *)
(* refused with a validation or idempotency error (callback(err)), which   *)
(* neither passes nor counts it.  The outcomes come in key order, each     *)
(* for a later document than the one before, so no document has two; a     *)
(* design document is only ever dropped; the outcome of any other document *)
(* follows the call of the mutator (or of the validator after it).  A step *)
(* handles one document, so the outcome and the call of the mutator to     *)
(* look at in a state are the last ones.                                   *)
(***************************************************************************)
RefusalTypes == {"Validation failed", "Idempotency check failed"}

Refusals(i) == {k \in At("error", i) : hist[k].x \in RefusalTypes}

Outcomes(i) ==
    Cardinality({k \in DOMAIN hist :
                    /\ hist[k].id = i
                    /\ \/ hist[k].e \in {"pass", "ignored"}
                       \/ hist[k].e = "error" /\ hist[k].x \in RefusalTypes})

IsOutcome(ev) ==
    \/ ev.e \in {"pass", "ignored"}
    \/ ev.e = "error" /\ ev.x \in RefusalTypes

\* The place of the last outcome up to k (0 when there is none).
LastOutcome(k) ==
    LET last[j \in 0..k] ==
            IF j = 0 THEN 0
            ELSE IF IsOutcome(hist[j]) THEN j
            ELSE last[j - 1]
    IN last[k]

C29_OneOutcomePerDocument ==
    /\ LET o == LastOutcome(Len(hist))
           before == LastOutcome(o - 1)
           m == LastEvent({"mutator"}, o)
       IN o # 0 =>
              /\ before # 0 => hist[before].id < hist[o].id
              /\ docs[hist[o].id].design => hist[o].e = "ignored"
              /\ ~docs[hist[o].id].design => m # 0 /\ hist[m].id = hist[o].id
    /\ LET m == LastEvent({"mutator"}, Len(hist))
       IN m # 0 =>
              \E j \in (m + 1)..(m + 2) :
                  /\ j <= Len(hist)
                  /\ IsOutcome(hist[j]) /\ hist[j].id = hist[m].id

\* The statement as it stands: every document the mutator was applied to is
\* either passed to the writer or counted as ignored.
C29_AsStated ==
    \A k \in Places("mutator") :
        Cardinality(At("pass", hist[k].id)) + Cardinality(At("ignored", hist[k].id)) = 1

\* A run of two documents with two of the outcomes: the first was passed
\* and written, the second was refused by the validator and is neither
\* passed nor counted.
C29_Witness ==
    /\ promise.state = "rejected"
    /\ promise.reason = [type |-> "Validation failed", id |-> 2]
    /\ Len(docs) = 2
    /\ At("pass", 1) # {} /\ At("document-write", 1) # {} /\ Outcomes(1) = 1
    /\ Refusals(2) # {} /\ At("pass", 2) = {} /\ At("ignored", 2) = {}
    /\ stats.ignored = 0 /\ stats.written = 1

\* A run of two documents with the third outcome: the first was dropped
\* and counted although the mutator was applied to it, the second passed.
C29_DropWitness ==
    /\ promise.state = "resolved"
    /\ Len(docs) = 2
    /\ At("mutator", 1) # {} /\ At("ignored", 1) # {} /\ At("pass", 1) = {}
    /\ At("pass", 2) # {} /\ At("ignored", 2) = {}
    /\ stats.ignored = 1 /\ stats.written = 1

(***************************************************************************)
(* C30: the serialization that detects a change does not depend on the     *)
(* insertion order of the keys: a document and the same document with its  *)
(* keys in the other order serialize identically.  So a document whose     *)
(* keys the mutator only reorders (the document in memory does change) is  *)
(* skipped as unchanged: once the mutator was applied it is counted as     *)
(* ignored, and it is never validated, passed to the writer or put, and    *)
(* the collection keeps it as stored.                                      *)
(***************************************************************************)
Reordered(doc) == [doc EXCEPT !.ord = 1 - @]

ReorderedDocs == {i \in DOMAIN docs : ~docs[i].design /\ docs[i].mut = "reorder"}

C30_ReorderIsNoChange ==
    \A i \in DOMAIN docs :
        (~docs[i].design /\ docs[i].mut = "reorder") =>
          /\ Reordered(Stored(i)) # Stored(i)
          /\ jsonStableStringify(Reordered(Stored(i))) = jsonStableStringify(Stored(i))
          /\ mutator(Stored(i)) = Reordered(Stored(i))
          /\ At("mutator", i) # {} => At("ignored", i) # {}
          /\ At("validator", i) = {} /\ At("pass", i) = {} /\ At("put", i) = {}
          /\ db.docs[i] = Stored(i).v

\* A resolved run with a validator that would refuse every document: the
\* mutator reordered the keys of the first document, which was counted as
\* ignored and not written, and changed the second, which was written.
C30_Witness ==
    /\ promise.state = "resolved"
    /\ Len(docs) = 2 /\ options.validator
    /\ ReorderedDocs = {1}
    /\ At("mutator", 1) # {} /\ At("ignored", 1) # {}
    /\ At("document-write", 2) # {}
    /\ stats = [total |-> 2, written |-> 1, ignored |-> 1]

(***************************************************************************)
(* The order of the checks of one document                                 *)
(***************************************************************************)
\* The calls of the mutator and of the validator that one step has added to
\* the history.
MutatorCalls == {k \in Added : hist'[k].e = "mutator"}
ValidatorCalls == {k \in Added : hist'[k].e = "validator"}

\* The document the transform function is given in this step.
Chunk == transform.writing.id

\* Claim C32: the checks of a non-design document run in the order unchanged,
\* validation, idempotency.  A step that calls the mutator or the validator
\* calls them on the document the transform was given, which is not a design
\* document and which the mutator has not been called on before; the
\* validator is called at most once, only on a document the mutator changes,
\* after the first and before the second call of the mutator; a document that
\* fails both validation and idempotency raises the validation error; the
\* mutator is called once when verifyIdempotent is false or the document is
\* unchanged or invalid, and twice on a changed, valid document when
\* verifyIdempotent is true.
C32_ChecksInOrder ==
    [][MutatorCalls \cup ValidatorCalls # {} =>
          LET i == Chunk
              first == CHOOSE k \in MutatorCalls : \A j \in MutatorCalls : k <= j
              before == LastEvent({"mutator"}, Len(hist))
              refused == options.validator /\ ~docs[i].valid
          IN /\ i \in DOMAIN docs /\ ~docs[i].design
             /\ MutatorCalls # {}
             /\ \A k \in MutatorCalls \cup ValidatorCalls : hist'[k].id = i
             /\ before # 0 => hist[before].id < i
             /\ ValidatorCalls # {} <=> options.validator /\ Changes(i)
             /\ ValidatorCalls \in {{}, {first + 1}}
             /\ MutatorCalls =
                    IF options.verifyIdempotent /\ Changes(i) /\ ~refused
                    THEN {first, first + 1 + Cardinality(ValidatorCalls)}
                    ELSE {first}
             /\ Changes(i) /\ refused =>
                    /\ Len(hist') > first + 1
                    /\ hist'[first + 2] = Event("error", i, 0, 0, 0, "Validation failed")]_vars

\* A document that fails both checks has raised the validation error after
\* one call of the mutator and one of the validator.
C32_Witness ==
    /\ options.validator /\ options.verifyIdempotent
    /\ \E k \in Places("error") :
          LET i == hist[k].id
          IN /\ hist[k].x = "Validation failed"
             /\ docs[i].mut = "nonidem" /\ ~docs[i].valid
             /\ Cardinality(At("mutator", i)) = 1
             /\ Cardinality(At("validator", i)) = 1

\* A changed, valid document has had the mutator applied twice, around the
\* validator, and has been passed on.
C32_TwiceWitness ==
    /\ options.validator /\ options.verifyIdempotent
    /\ Len(docs) <= MaxSmall
    /\ \E k \in Places("pass") :
          /\ k > 3
          /\ hist[k - 3].e = "mutator" /\ hist[k - 2].e = "validator"
          /\ hist[k - 1].e = "mutator"

(***************************************************************************)
(* C33: after the rejection                                                *)
(***************************************************************************)
\* Claim C33: once the promise of mutateAllDocs is rejected, no step emits
\* "progress" and no step changes stats.written, so a db.put that was in
\* flight when another stage failed reports nothing when it answers.
C33_NothingReportedAfterReject ==
    [][promise.state = "rejected" =>
          /\ stats'.written = stats.written
          /\ \A k \in Added : hist'[k].e # "progress"]_vars

\* The divergence: with no database error at all, document 1 is being put
\* when document 2 fails validation; the put answers after the rejection,
\* stats.written is incremented and "progress" is emitted.
C33_LateReport ==
    /\ faults = 0
    /\ promise = [state |-> "rejected",
                  reason |-> [type |-> "Validation failed", id |-> 2]]
    /\ \E r \in Places("reject") :
          \E k \in At("document-write", 1) :
              /\ r < k /\ k < Len(hist)
              /\ hist[k + 1].e = "progress" /\ hist[k + 1].b = 1
    /\ stats.written = 1

(***************************************************************************)
(* replicateWithoutDesignDocs                                              *)
(*                                                                         *)
(* The function posts one replication document to the target server's      *)
(* _replicator database and then polls, every 500 ms, until the scheduler  *)
(* document of the job says "completed".  The later source first looks for *)
(* the job among the server's active tasks and asks for the scheduler      *)
(* document only when there is no such task; the earlier one asks for the  *)
(* scheduler document at once.  The server runs the job on its own: its    *)
(* state changes between the polls.                                        *)
(***************************************************************************)
\* The counters of polls and of "progress" events are counted up to MaxPolls.
MaxPolls == 3

UpTo(n) == IF n < MaxPolls THEN n + 1 ELSE n

\* The states of a job in CouchDB's scheduler, and what a state may become:
\* "completed" and "failed" are final, a crashing job is retried.
JobStates == {"initializing", "pending", "running", "crashing", "failed",
              "completed"}

JobSuccessors(state) ==
    CASE state = "initializing" -> {"pending", "running", "failed"}
      [] state = "pending" -> {"running", "crashing"}
      [] state = "running" -> {"completed", "crashing", "pending"}
      [] state = "crashing" -> {"pending", "running"}
      [] OTHER -> {}

\* A check for failure: the loop also ends when the job has failed.
completedOrFailed(state) == state \in {"completed", "failed"}

\* completed = doc.state === "completed"
completed(state) == state = "completed"

\* options.eventEmitter.emit("progress", ...)
emitProgress(r) == [r EXCEPT !.progress = UpTo(@)]

\* The head of the loop body: await _getReplicationTask(options.target, id)
\* where the source has it, await _getReplication(options.target, id)
\* where it has not.
getReplicationTask(r) ==
    IF r.tasks
    THEN [r EXCEPT !.pc = "_getReplicationTask", !.taskPolls = UpTo(@)]
    ELSE [r EXCEPT !.pc = "_getReplication", !.polls = UpTo(@)]

\* A step of replicateWithoutDesignDocs or of the server's job: nothing but
\* the replication changes.
Others == <<docs, faults, source, transform, target, pump, promise, stats,
            loop, db, hist>>

Replication(r) ==
    /\ replication' = r
    /\ UNCHANGED <<Others, options, views>>

\* replicateWithoutDesignDocs(options): the asserts pass and
\* _startReplication posts the replication document.
ReplicateWithoutDesignDocs ==
    /\ replication.pc = "idle"
    /\ Replication([replication EXCEPT !.pc = "_startReplication",
                                       !.posts = UpTo(@)])

\* The POST is answered: with an error object _startReplication throws and
\* so does replicateWithoutDesignDocs; else the job exists and the loop is
\* entered.
StartReplicationResult ==
    /\ replication.pc = "_startReplication"
    /\ \E error \in BOOLEAN :
          Replication(
              IF error
              THEN [replication EXCEPT !.pc = "thrown",
                                       !.error = "Failed to start replication"]
              ELSE getReplicationTask([replication EXCEPT !.job = "initializing"]))

\* _active_tasks is answered: the job may be among the tasks while it runs.
\* With a task "progress" is emitted, without one the scheduler document is
\* asked for.
GetReplicationTaskResult ==
    /\ replication.pc = "_getReplicationTask"
    /\ \E task \in IF replication.job = "running" THEN BOOLEAN ELSE {FALSE} :
          Replication(
              IF task
              THEN LET r == [replication EXCEPT !.pc = "setTimeout"]
                   IN IF options.eventEmitter THEN emitProgress(r) ELSE r
              ELSE [replication EXCEPT !.pc = "_getReplication", !.polls = UpTo(@)])

\* The scheduler document is answered, with or without an info object.
GetReplicationResult ==
    /\ replication.pc = "_getReplication"
    /\ \E info \in BOOLEAN :
          LET state == replication.job
              r == [replication EXCEPT !.pc = "setTimeout", !.last = state,
                                       !.completed = completed(state)]
          IN Replication(IF options.eventEmitter /\ info THEN emitProgress(r) ELSE r)

\* The 500 ms have passed: while (!completed).
SetTimeout ==
    /\ replication.pc = "setTimeout"
    /\ Replication(IF replication.completed
                   THEN [replication EXCEPT !.pc = "returned"]
                   ELSE getReplicationTask(replication))

\* fetch rejects, or the answer is no JSON: the awaited promise rejects and
\* replicateWithoutDesignDocs throws.
FetchRejects ==
    /\ replication.pc \in {"_startReplication", "_getReplicationTask",
                           "_getReplication"}
    /\ Replication([replication EXCEPT !.pc = "thrown", !.error = "fetch"])

\* The server runs the job.
JobStep ==
    /\ replication.job \in JobStates
    /\ \E state \in JobSuccessors(replication.job) :
          Replication([replication EXCEPT !.job = state])

InitReplicate ==
    /\ docs = <<>>
    /\ faults = 0
    /\ InitStreams
    /\ views = NotCalled
    /\ \E tasks \in BOOLEAN :
          /\ options \in {o \in [eventEmitter : BOOLEAN] : o.eventEmitter => tasks}
          /\ replication = [pc |-> "idle", tasks |-> tasks, job |-> "none",
                            completed |-> FALSE, posts |-> 0, polls |-> 0,
                            taskPolls |-> 0, progress |-> 0, last |-> "none",
                            error |-> "none"]

NextReplicate ==
    \/ ReplicateWithoutDesignDocs
    \/ StartReplicationResult
    \/ GetReplicationTaskResult
    \/ GetReplicationResult
    \/ SetTimeout
    \/ FetchRejects
    \/ JobStep

SpecReplicate == InitReplicate /\ [][NextReplicate]_vars

\* Claim C31: replicateWithoutDesignDocs starts exactly one replication job
\* (one POST once it is called, never a second); it has returned only if the
\* scheduler document was polled and the last poll said "completed"; and when
\* starting the job fails nothing is polled, neither the scheduler document
\* nor the active tasks.
C31_OneJobReturnsWhenCompleted ==
    /\ replication.posts = IF replication.pc = "idle" THEN 0 ELSE 1
    /\ replication.pc = "returned" =>
           /\ replication.polls > 0
           /\ replication.last = "completed"
           /\ replication.job = "completed"
    /\ replication.last # "completed" => ~replication.completed
    /\ replication.error = "Failed to start replication" =>
           /\ replication.pc = "thrown"
           /\ replication.polls = 0 /\ replication.taskPolls = 0
           /\ replication.job = "none"

\* The call has returned after several polls, the last of which found the
\* job completed.
C31_Witness ==
    /\ replication.pc = "returned"
    /\ replication.polls > 1
    /\ replication.last = "completed"

\* Starting the job has failed.
C31_StartFailedWitness ==
    /\ replication.pc = "thrown"
    /\ replication.error = "Failed to start replication"
    /\ replication.polls = 0

(***************************************************************************)
(* C34: the polling loop and a job that fails                              *)
(***************************************************************************)
\* A request that is made is answered or fails, and a timer that is set
\* fires; nothing is assumed of the server's job.
ReplicateAnswer ==
    \/ StartReplicationResult
    \/ GetReplicationTaskResult
    \/ GetReplicationResult
    \/ FetchRejects

FairSpecReplicate ==
    /\ SpecReplicate
    /\ WF_vars(ReplicateWithoutDesignDocs)
    /\ WF_vars(ReplicateAnswer)
    /\ WF_vars(SetTimeout)

Returned == replication.pc \in {"returned", "thrown"}

\* Claim C34: replicateWithoutDesignDocs terminates for every outcome of the
\* job: once the job has failed, the call returns or throws.
C34_FailedJobTerminates == (replication.job = "failed") ~> Returned

\* Once the job has completed, the call returns or throws.
C34_CompletedJobTerminates == (replication.job = "completed") ~> Returned

\* The job has failed, the scheduler document has said so to several polls,
\* and the loop is waiting to poll again.
C34_PollingFailedJob ==
    /\ replication.job = "failed" /\ replication.last = "failed"
    /\ replication.polls = MaxPolls
    /\ replication.pc = "setTimeout" /\ ~replication.completed

(***************************************************************************)
(* refreshViews                                                            *)
(*                                                                         *)
(* The function reads the design documents and then, view by view, starts  *)
(* a query of the view (which makes the server build its index) and polls  *)
(* the server's active tasks every 10 ms, reporting the indexers'          *)
(* progress, until the query has answered.  The views of all the design    *)
(* documents are numbered 1..n in the order of the two nested loops.       *)
(***************************************************************************)
\* The design documents have up to MaxViews views together.
MaxViews == 2

\* while (refreshing)
refreshing(v) == v.refreshing

\* The query of view k is made and the loop for it is entered: the first
\* request for the active tasks.
refreshView(v, k) ==
    [v EXCEPT !.view = k, !.refreshing = TRUE, !.query[k] = "pending",
              !.pc = "_active_tasks", !.polls = UpTo(@)]

\* The end of a loop for a view: the next view, or the end of the function.
nextView(v) ==
    IF v.view < v.n THEN refreshView(v, v.view + 1)
    ELSE [v EXCEPT !.pc = "returned"]

\* A step of refreshViews: nothing but its state changes.
Views(v) ==
    /\ views' = v
    /\ UNCHANGED <<Others, options, replication>>

\* refreshViews(options): the asserts pass and the design documents are
\* asked for.
RefreshViews ==
    /\ views.pc = "idle"
    /\ Views([views EXCEPT !.pc = "_design_docs"])

\* The design documents are answered.
DesignDocsResult ==
    /\ views.pc = "_design_docs"
    /\ Views(nextView(views))

\* The query of a view answers: its .then sets refreshing to false.
ViewQueryResult ==
    \E k \in 1..views.n :
        /\ views.query[k] = "pending"
        /\ Views([views EXCEPT !.query[k] = "answered",
                               !.refreshing = IF k = views.view THEN FALSE ELSE @])

\* The query of a view rejects: the promise that .then returned rejects and
\* nothing handles it.
ViewQueryRejects ==
    \E k \in 1..views.n :
        /\ views.query[k] = "pending"
        /\ Views([views EXCEPT !.query[k] = "rejected"])

\* The active tasks are answered, with or without indexers among them.
ActiveTasksResult ==
    /\ views.pc = "_active_tasks"
    /\ \E indexers \in BOOLEAN :
          Views([views EXCEPT !.pc = "setTimeout",
                              !.progress = IF indexers /\ options.eventEmitter
                                           THEN UpTo(@) ELSE @])

\* The request for the design documents or for the active tasks rejects:
\* refreshViews rejects.
ViewsFetchRejects ==
    /\ views.pc \in {"_design_docs", "_active_tasks"}
    /\ Views([views EXCEPT !.pc = "thrown"])

\* The 10 ms have passed: while (refreshing).
ViewsSetTimeout ==
    /\ views.pc = "setTimeout"
    /\ Views(IF refreshing(views)
             THEN [views EXCEPT !.pc = "_active_tasks", !.polls = UpTo(@)]
             ELSE nextView(views))

InitViews ==
    /\ docs = <<>>
    /\ faults = 0
    /\ InitStreams
    /\ replication = NotCalled
    /\ options \in [eventEmitter : BOOLEAN]
    /\ \E n \in 0..MaxViews :
          views = [pc |-> "idle", n |-> n, view |-> 0, refreshing |-> FALSE,
                   query |-> [k \in 1..n |-> "none"], polls |-> 0,
                   progress |-> 0]

NextViews ==
    \/ RefreshViews
    \/ DesignDocsResult
    \/ ViewQueryResult
    \/ ViewQueryRejects
    \/ ActiveTasksResult
    \/ ViewsFetchRejects
    \/ ViewsSetTimeout

SpecViews == InitViews /\ [][NextViews]_vars

\* A request that is made is answered or rejects, and a timer that is set
\* fires.
ViewsAnswer ==
    \/ DesignDocsResult
    \/ ActiveTasksResult
    \/ ViewsFetchRejects

ViewQueryAnswer == ViewQueryResult \/ ViewQueryRejects

FairSpecViews ==
    /\ SpecViews
    /\ WF_vars(RefreshViews)
    /\ WF_vars(ViewsAnswer)
    /\ WF_vars(ViewQueryAnswer)
    /\ WF_vars(ViewsSetTimeout)

ViewsReturned == views.pc \in {"returned", "thrown"}

\* Claim C35: refreshViews refreshes the views one at a time and terminates
\* for every outcome of a view query: once the query of a view has failed the
\* call returns or rejects.
C35_FailedQueryTerminates ==
    (\E k \in DOMAIN views.query : views.query[k] = "rejected") ~> ViewsReturned

\* The first half of C35: the views are queried in order and one at a time;
\* a query is pending only for the current view.
C35_OneAtATime ==
    \A k \in DOMAIN views.query :
        /\ views.query[k] = "pending" => k = views.view
        /\ views.query[k] # "none" <=> k <= views.view

\* When every query answers, the call returns or rejects.
C35_AnsweredQueriesTerminate ==
    [](\A k \in DOMAIN views.query : views.query[k] # "rejected") => <>ViewsReturned

\* The query of view 1 has rejected, and the loop is still polling the
\* active tasks for it.
C35_PollingFailedView ==
    /\ views.n > 0
    /\ views.query[1] = "rejected" /\ views.view = 1 /\ views.refreshing
    /\ views.polls = MaxPolls
    /\ views.pc = "setTimeout"

(***************************************************************************)
(* The first mutateAllDocs                                                 *)
(*                                                                         *)
(* The earlier source of mutateAllDocs pipes the same three streams.  Its  *)
(* transform function skips a document that fails a check where the later  *)
(* one throws, its reportProgress has no reportFrequency, and its          *)
(* 'document-write' listener calls reportProgess, a name that is not       *)
(* defined.                                                                *)
(***************************************************************************)
\* reportProgress() of the first mutateAllDocs: every call emits "progress"
\* when there is an emitter.
reportProgress1(w) ==
    IF ~options.eventEmitter THEN w
    ELSE Log(w, Event("progress", w.stats.written + w.stats.ignored,
                      w.stats.total, w.stats.written, w.stats.ignored,
                      message(w.stats.written + w.stats.ignored, w.stats.total,
                              w.stats.written, w.stats.ignored)))

\* options.validator(transformed): the validator is given the string, which
\* holds the document's _id.
validator1(transformed) == docs[transformed[1]].valid

\* The first .then of the transform function: the value of write, the
\* document as it has become, and the calls made.
decide1(doc) ==
    IF SkipDesign(doc)
    THEN [write |-> FALSE, doc |-> doc, calls |-> <<>>]
    ELSE LET original == jsonStableStringify(doc)
             doc1 == mutator(doc)
             transformed == jsonStableStringify(doc1)
             m == Event("mutator", doc.id, 0, 0, 0, "")
             v == Event("validator", doc.id, 0, 0, 0, "")
             write0 == original # transformed
             validate == write0 /\ options.validator
             write1 == IF validate THEN validator1(transformed) ELSE write0
             verify == write1 /\ options.verifyIdempotent
             doc2 == IF verify THEN mutator(doc1) ELSE doc1
             write2 == IF verify THEN transformed = jsonStableStringify(doc2)
                       ELSE write1
         IN [write |-> write2, doc |-> doc2,
             calls |-> <<m>> \o (IF validate THEN <<v>> ELSE <<>>)
                          \o (IF verify THEN <<m>> ELSE <<>>)]

\* stats.ignored++; reportProgress(); callback(null).
ignore1(w, doc) ==
    afterTransform(reportProgress1(Log([w EXCEPT !.stats.ignored = @ + 1],
                                       Event("ignored", doc.id, 0, 0, 0, ""))),
                   NoError, NoChunk)

\* A transform function that threw on a failed check, as the later one does.
transformFunctionThrows(w) == transformFunction(w)

\* The function given to mississippi.through.obj, with its promise chain.
transformFunction1(w) ==
    LET d == decide1(w.transform.writing)
        w1 == [w EXCEPT !.hist = @ \o d.calls]
    IN IF d.write
       THEN afterTransform(Log(w1, Event("pass", d.doc.id, d.doc.v, 0, 0, "")),
                           NoError, d.doc)
       ELSE ignore1(w1, d.doc)

\* The target's 'document-write' listener: stats.written++, and then the
\* call of reportProgess throws a ReferenceError.
onDocumentWrite1(w, chunk) ==
    Log(Log([w EXCEPT !.stats.written = @ + 1],
            Event("document-write", chunk.id, 0, 0, 0, "")),
        Event("throw", chunk.id, 0, 0, 0, "ReferenceError"))

\* The process ends on the exception: nothing is left to run.
exit(w) ==
    [w EXCEPT !.loop.ticks = <<>>, !.loop.micro = <<>>,
              !.db.allDocs = <<>>, !.db.put = <<>>]

\* What becomes of an exception thrown in the callback given to db.put is up
\* to the database library: it is swallowed (a rejection nobody handles) or
\* it ends the process.
Thrown == {"swallowed", "uncaught"}

\* The callback CouchDbWriteStream._write gives to db.put, with the listener
\* of the first mutateAllDocs: without an error the listener throws in
\* emit("document-write") and callback(err) is not reached.
onPut1(w, err, thrown) ==
    IF err # NoError THEN targetOnWrite(w, err)
    ELSE LET w1 == onDocumentWrite1(w, w.target.writing)
         IN IF thrown = "uncaught" THEN exit(w1) ELSE w1

TransformChunk1 ==
    /\ MicroReady("transform")
    /\ Commit(transformFunction1(PopMicro))
    /\ UNCHANGED faults

\* db.put answers: the document is stored.
PutSuccess1 ==
    /\ Quiet
    /\ \E i \in DOMAIN db.put : \E thrown \in Thrown :
          Commit(onPut1(InMicro([World EXCEPT !.db.put = Remove(@, i),
                                              !.db.docs[db.put[i].id] = db.put[i].v]),
                        NoError, thrown))
    /\ UNCHANGED faults

\* The options of the first mutateAllDocs: there is no reportFrequency.
Options1 == {o \in Options : o.reportFrequency = 0}

Init1 ==
    /\ \/ docs \in SmallCollections /\ options \in Options1
       \/ /\ docs \in LongCollections
          /\ options = [LongOptions EXCEPT !.reportFrequency = 0]
    /\ InitRun

Next1 ==
    \/ MutateAllDocs
    \/ TickResumeSource
    \/ TickResumeTransform
    \/ TickMaybeReadMore
    \/ TickSelfRead
    \/ TickEndSource
    \/ TickEndTransform
    \/ TickClose
    \/ AllDocsCall
    \/ TransformChunk1
    \/ AllDocsResolve
    \/ AllDocsReject
    \/ PutSuccess1
    \/ PutFailure

Spec1 == Init1 /\ [][Next1]_vars

(***************************************************************************)
(* C36: a successful put in the first mutateAllDocs                        *)
(***************************************************************************)
\* Claim C36: in the first mutateAllDocs every successful db.put increments
\* stats.written by one, triggers a progress report, and then completes the
\* write callback, so that the write stream is done with the document.
C36_PutReportsAndCompletes ==
    [][\A k \in Added :
          hist'[k].e = "document-write" =>
              /\ stats'.written = stats.written + 1
              /\ options.eventEmitter =>
                     \E j \in Added : j > k /\ hist'[j].e = "progress"
              /\ target'.writing.id # hist'[k].id]_vars

\* The part of C36 that holds: a successful put increments stats.written.
C36_PutCounts ==
    [][\A k \in Added :
          hist'[k].e = "document-write" => stats'.written = stats.written + 1]_vars

\* The parts of C36 that do not hold, one by one.
C36_PutReports ==
    [][\A k \in Added :
          hist'[k].e = "document-write" /\ options.eventEmitter =>
              \E j \in Added : j > k /\ hist'[j].e = "progress"]_vars

C36_PutCompletes ==
    [][\A k \in Added :
          hist'[k].e = "document-write" =>
              target'.writing.id # hist'[k].id]_vars

\* One document that the mutator changes has been stored, the process is
\* still there, nothing is left to run, and the promise is pending.
C36_Stalled ==
    /\ Len(docs) = 1
    /\ promise.state = "pending"
    /\ stats.written = 1
    /\ db.docs[1] = 1
    /\ target.writing.id = 1
    /\ Quiet /\ db.put = <<>> /\ db.allDocs = <<>>
    /\ source.ended /\ ~target.finished
    /\ hist[Len(hist)].e # "throw"

(***************************************************************************)
(* C37: a failed check in the first mutateAllDocs                          *)
(***************************************************************************)
\* Document i is one the mutator changes and that fails a check: the
\* validator refuses it, or verifyIdempotent is set and a second mutation
\* changes it again.
FailsCheck(i) ==
    LET doc1 == mutator(Stored(i))
        transformed == jsonStableStringify(doc1)
    IN /\ ~docs[i].design
       /\ Changes(i)
       /\ \/ options.validator /\ ~docs[i].valid
          \/ options.verifyIdempotent /\
             transformed # jsonStableStringify(mutator(doc1))

\* Claim C37: in the first mutateAllDocs a changed document that fails
\* validation, or the idempotency check when verifyIdempotent is true, is
\* skipped.  The step of the transform function on such a document counts it
\* in stats.ignored, leaves stats.written and the calls of db.put alone,
\* raises no error, leaves the promise as it is and leaves the transform
\* free for the next document; no step passes such a document on or puts it;
\* and the promise is never rejected with a validation or idempotency error.
C37_FailedCheckSkips ==
    [][/\ (MutatorCalls # {} /\ FailsCheck(Chunk)) =>
             /\ stats'.ignored = stats.ignored + 1
             /\ stats'.written = stats.written
             /\ \E k \in Added : hist'[k] = Event("ignored", Chunk, 0, 0, 0, "")
             /\ \A k \in Added : hist'[k].e \notin {"error", "reject"}
             /\ db'.put = db.put
             /\ promise' = promise
             /\ transform'.writing.id # Chunk
             /\ ~transform'.destroyed
       /\ \A k \in Added :
             hist'[k].e \in {"pass", "put"} => ~FailsCheck(hist'[k].id)
       /\ promise'.reason.type \notin {"Validation failed",
                                       "Idempotency check failed"}]_vars

\* Document 1 fails validation and document 2 the idempotency check: both
\* were skipped and counted, neither was put, and the run has resolved.
C37_Witness ==
    /\ Len(docs) = 2
    /\ options.validator /\ options.verifyIdempotent
    /\ docs[1] = [design |-> FALSE, mut |-> "idem", valid |-> FALSE]
    /\ docs[2] = [design |-> FALSE, mut |-> "nonidem", valid |-> TRUE]
    /\ promise.state = "resolved"
    /\ stats = [total |-> 2, written |-> 0, ignored |-> 2]
    /\ At("ignored", 1) # {} /\ At("ignored", 2) # {}
    /\ Cardinality(At("mutator", 2)) = 2
    /\ Places("put") = {}
    /\ db.docs = [i \in 1..2 |-> 0]

\* A skipped document is followed by one that is passed on: the run went on.
C37_GoesOnWitness ==
    /\ Len(docs) = 2
    /\ FailsCheck(1) /\ ~FailsCheck(2)
    /\ At("ignored", 1) # {}
    /\ \E k \in At("put", 2) : \A j \in At("ignored", 1) : j < k

====
